---- MODULE Spec2Model ----
(***************************************************************************)
(* Model of the KnowHow team Q&A server (Express handlers over MySQL).     *)
(*                                                                         *)
(* Every handler issues its SQL statements one at a time through           *)
(* db.query on a connection pool; no handler opens a transaction.  A       *)
(* statement is therefore the unit of atomicity: one action of the model   *)
(* is one statement together with the JavaScript that runs after it up to  *)
(* the next await (or up to the response).  Request slots hold the         *)
(* handlers that are in flight, so that the statements of concurrently     *)
(* handled requests interleave.                                            *)
(***************************************************************************)
EXTENDS Integers, Sequences, FiniteSets, TLC

\* ------------------------------------------------------------------------
\* Bounds of the model
\* ------------------------------------------------------------------------
MaxTeams == 1
MaxInvites == 1
MaxQuestions == 2
MaxAnswers == 2
\* invite rows in the specifications of the invite handlers handled concurrently
MaxRaceInvites == 2
MaxComments == 1
\* failures are injected while the target's score is within this distance of 0
MaxFailScore == 1
\* concurrent vote requests arrive while the target's score is within this distance of 0
MaxRaceScore == 1

Users == {1, 2, 3}
Slots == {1, 2}
\* the users whose requests are handled concurrently, and the slot that
\* handles requests one at a time
ConcUsers == {1, 2}
SeqSlot == 1
Slugs == {"acme"}
TeamIds == 1..MaxTeams
Tokens == 1..MaxInvites

\* users.email of the registered users (registration stores the address
\* after normalizeEmail, i.e. in lower case)
EmailOf(u) == <<"user", u>>

\* addresses as requests spell them: in lower case or in capitals
RawEmails == {<<"user", u>> : u \in Users} \cup {<<"USER", u>> : u \in Users}

\* the address left as it was spelled
LowerEmail_AsSpelled(e) == e

\* String.prototype.toLowerCase on an address
LowerEmail(e) == <<"user", e[2]>>

\* body('email').isEmail().normalizeEmail(): the address in lower case
NormalizeEmail(e) == LowerEmail(e)

VARIABLES
    teams,          \* teams table: row i has id i and slug teams[i]
    team_members,   \* team_members table: [team_id, user_id] -> roles of the rows
    team_invites,   \* team_invites table: row i has id i and token i
    treq,           \* team/admin requests, one per slot: in flight or answered
    questions,      \* questions table: row i has id i
    answers,        \* answers table: row i has id i
    votes,          \* votes table: the set of its rows
    tags,           \* tags table: row i has id i
    question_tags,  \* question_tags table: the set of its rows
    comments,       \* comments table: row i has id i
    creq            \* content requests (questions, answers, votes), one per slot

teamVars == <<teams, team_members, team_invites, treq>>
contentVars == <<questions, answers, votes, tags, question_tags, comments, creq>>
vars == <<teams, team_members, team_invites, treq,
          questions, answers, votes, tags, question_tags, comments, creq>>

\* ------------------------------------------------------------------------
\* Requests
\* ------------------------------------------------------------------------
NoReq ==
    [op |-> "none", pc |-> "idle", status |-> 0, msg |-> "",
     user |-> 0, slug |-> "", teamId |-> 0, target |-> 0, role |-> "",
     email |-> <<>>, token |-> 0, l_team |-> 0, l_role |-> ""]

\* a slot is free when it holds no request or one that has been answered
Free(r) == treq[r].pc \in {"idle", "done"}

InFlight(r) == ~Free(r)

\* a request arrives: authenticateToken has set req.user, nothing has run yet
NewReq(op, u, pc) == [NoReq EXCEPT !.op = op, !.user = u, !.pc = pc]

\* res.status(status).json({message or error: msg}): the handler returns; the
\* slot keeps the answer (and the token it was about) until it is reused
Respond(r, status, msg) ==
    /\ treq' = [treq EXCEPT ![r] =
                  [NoReq EXCEPT !.op = treq[r].op, !.pc = "done", !.status = status,
                                !.msg = msg, !.token = treq[r].token]]
    /\ UNCHANGED contentVars

\* the handler goes on to its next statement
Continue(r, rec) ==
    /\ treq' = [treq EXCEPT ![r] = rec]
    /\ UNCHANGED contentVars

\* content requests; g_vote and g_score are the observer's note of the vote
\* and the score the request found when it arrived
NoCReq ==
    [op |-> "none", pc |-> "idle", status |-> 0, msg |-> "",
     user |-> 0, vtype |-> "", id |-> 0, dir |-> "", tagList |-> <<>>,
     l_id |-> 0, l_q |-> 0, l_owner |-> 0, l_team |-> 0, l_tags |-> <<>>, l_i |-> 0, l_tag |-> 0,
           teamId |-> 0, hasText |-> FALSE, hasTags |-> FALSE, tagStr |-> <<>>,
     g_vote |-> "", g_score |-> 0]

CFree(r) == creq[r].pc \in {"idle", "done"}

NewCReq(op, u, pc) == [NoCReq EXCEPT !.op = op, !.user = u, !.pc = pc]

\* res.status(status).json(...): the slot keeps the answer, the arguments and
\* the observer's note until it is reused
CRespond(r, status, msg) ==
    /\ creq' = [creq EXCEPT ![r] =
                  [@ EXCEPT !.pc = "done", !.status = status, !.msg = msg,
                            !.l_id = 0, !.l_q = 0, !.l_owner = 0, !.l_team = 0,
                            !.l_tags = <<>>, !.l_i = 0, !.l_tag = 0,
                                   !.tagList = <<>>, !.tagStr = <<>>]]
    /\ UNCHANGED teamVars

CContinue(r, rec) ==
    /\ creq' = [creq EXCEPT ![r] = rec]
    /\ UNCHANGED teamVars

\* ------------------------------------------------------------------------
\* Store queries
\* ------------------------------------------------------------------------
\* SELECT id FROM teams WHERE slug = ?
TeamsBySlug(s) == {i \in 1..Len(teams) : teams[i] = s}

MinOf(S) == CHOOSE x \in S : \A y \in S : x <= y

\* SELECT ... FROM team_members WHERE user_id = ? AND team_id = ?
Membership(t, u) == team_members[<<t, u>>]

IsMember(t, u) == Membership(t, u) # <<>>

MembersOf(t) == {u \in Users : IsMember(t, u)}

AdminsOf(t) == {u \in Users : \E i \in 1..Len(Membership(t, u)) : Membership(t, u)[i] = "admin"}

\* SELECT COUNT(*) FROM team_members WHERE team_id = ? AND role = 'admin' AND user_id != ?
OtherAdminCount(t, u) == Cardinality(AdminsOf(t) \ {u})

\* the count taken without "AND user_id != ?"
OtherMemberCount_CountsCaller(t, u) == Cardinality(MembersOf(t))

\* SELECT COUNT(*) FROM team_members WHERE team_id = ? AND user_id != ?
OtherMemberCount(t, u) == Cardinality(MembersOf(t) \ {u})

\* UNIQUE KEY unique_membership (user_id, team_id)
UniqueMembership(t, u) == ~IsMember(t, u)

\* teams.slug ... UNIQUE
UniqueSlug(s) == TeamsBySlug(s) = {}

\* INSERT INTO team_members (user_id, team_id, role) VALUES (?, ?, ?)
InsertMember(t, u, role) ==
    [team_members EXCEPT ![<<t, u>>] = Append(@, role)]

\* DELETE FROM team_members WHERE team_id = ? AND user_id = ?
DeleteMember(t, u) == [team_members EXCEPT ![<<t, u>>] = <<>>]

\* UPDATE team_members SET role = ? WHERE team_id = ? AND user_id = ?
UpdateRole(t, u, role) ==
    [team_members EXCEPT ![<<t, u>>] = [i \in 1..Len(@) |-> role]]

\* requireTeamAdmin: the caller holds role admin in the addressed team
RequireTeamAdminOK_AnyMember(t, u) == IsMember(t, u)
RequireTeamAdminOK(t, u) == IsMember(t, u) /\ Membership(t, u)[1] = "admin"

\* ------------------------------------------------------------------------
\* Initial state: the tables as init-db creates them, with the registered
\* users and nothing else
\* ------------------------------------------------------------------------

TeamInit ==
    /\ teams = <<>>
    /\ team_members = [k \in TeamIds \X Users |-> <<>>]
    /\ team_invites = <<>>
    /\ treq = [r \in Slots |-> NoReq]
    /\ questions = <<>>
    /\ answers = <<>>
    /\ votes = {}
    /\ tags = <<>>
    /\ question_tags = {}
    /\ comments = <<>>
    /\ creq = [r \in Slots |-> NoCReq]

\* ------------------------------------------------------------------------
\* POST /api/teams (createTeam)
\* ------------------------------------------------------------------------
CreateTeam(r, u, s) ==
    /\ Free(r)
    /\ Continue(r, [NewReq("createTeam", u, "ct_select_slug") EXCEPT !.slug = s])
    /\ UNCHANGED <<teams, team_members, team_invites>>

CreateTeam_SelectSlug(r) ==
    /\ treq[r].pc = "ct_select_slug"
    /\ IF TeamsBySlug(treq[r].slug) # {}
       THEN Respond(r, 400, "Team URL already taken")
       ELSE Continue(r, [treq[r] EXCEPT !.pc = "ct_insert_team"])
    /\ UNCHANGED <<teams, team_members, team_invites>>

CreateTeam_InsertTeam(r) ==
    /\ treq[r].pc = "ct_insert_team"
    /\ IF UniqueSlug(treq[r].slug)
       THEN /\ Len(teams) < MaxTeams
            /\ teams' = Append(teams, treq[r].slug)
            /\ Continue(r, [treq[r] EXCEPT !.pc = "ct_insert_member", !.l_team = Len(teams) + 1])
       ELSE /\ Respond(r, 500, "Failed to create team")
            /\ UNCHANGED teams
    /\ UNCHANGED <<team_members, team_invites>>

CreateTeam_InsertMember(r) ==
    /\ treq[r].pc = "ct_insert_member"
    /\ IF UniqueMembership(treq[r].l_team, treq[r].user)
       THEN /\ team_members' = InsertMember(treq[r].l_team, treq[r].user, "admin")
            /\ Respond(r, 201, "Team created successfully")
       ELSE /\ Respond(r, 500, "Failed to create team")
            /\ UNCHANGED team_members
    /\ UNCHANGED <<teams, team_invites>>

\* ------------------------------------------------------------------------
\* POST /api/teams/:slug/members (addMember)
\* ------------------------------------------------------------------------
AddMember(r, u, s, e) ==
    /\ Free(r)
    /\ Continue(r, [NewReq("addMember", u, "am_select_team") EXCEPT !.slug = s, !.email = e])
    /\ UNCHANGED <<teams, team_members, team_invites>>

AddMember_SelectTeam(r) ==
    /\ treq[r].pc = "am_select_team"
    /\ IF TeamsBySlug(treq[r].slug) = {}
       THEN Respond(r, 404, "Team not found")
       ELSE Continue(r, [treq[r] EXCEPT !.pc = "am_select_membership", !.l_team = MinOf(TeamsBySlug(treq[r].slug))])
    /\ UNCHANGED <<teams, team_members, team_invites>>

AddMember_SelectMembership(r) ==
    /\ treq[r].pc = "am_select_membership"
    /\ IF ~IsMember(treq[r].l_team, treq[r].user)
       THEN Respond(r, 403, "Team membership required")
       ELSE Continue(r, [treq[r] EXCEPT !.pc = "am_select_user"])
    /\ UNCHANGED <<teams, team_members, team_invites>>

AddMember_SelectUser(r) ==
    /\ treq[r].pc = "am_select_user"
    /\ LET found == {u \in Users : EmailOf(u) = treq[r].email} IN
       IF found = {}
       THEN Respond(r, 404, "User not found")
       ELSE Continue(r, [treq[r] EXCEPT !.pc = "am_select_existing", !.target = MinOf(found)])
    /\ UNCHANGED <<teams, team_members, team_invites>>

AddMember_SelectExisting(r) ==
    /\ treq[r].pc = "am_select_existing"
    /\ IF IsMember(treq[r].l_team, treq[r].target)
       THEN Respond(r, 400, "User is already a team member")
       ELSE Continue(r, [treq[r] EXCEPT !.pc = "am_insert"])
    /\ UNCHANGED <<teams, team_members, team_invites>>

AddMember_Insert(r) ==
    /\ treq[r].pc = "am_insert"
    /\ IF UniqueMembership(treq[r].l_team, treq[r].target)
       THEN /\ team_members' = InsertMember(treq[r].l_team, treq[r].target, "member")
            /\ Respond(r, 201, "Member added successfully")
       ELSE /\ Respond(r, 500, "Failed to add member")
            /\ UNCHANGED team_members
    /\ UNCHANGED <<teams, team_invites>>

\* ------------------------------------------------------------------------
\* DELETE /api/teams/:slug/leave (leaveTeam)
\* ------------------------------------------------------------------------
LeaveTeam(r, u, s) ==
    /\ Free(r)
    /\ Continue(r, [NewReq("leaveTeam", u, "lt_select_team") EXCEPT !.slug = s])
    /\ UNCHANGED <<teams, team_members, team_invites>>

LeaveTeam_SelectTeam(r) ==
    /\ treq[r].pc = "lt_select_team"
    /\ IF TeamsBySlug(treq[r].slug) = {}
       THEN Respond(r, 404, "Team not found")
       ELSE Continue(r, [treq[r] EXCEPT !.pc = "lt_select_membership", !.l_team = MinOf(TeamsBySlug(treq[r].slug))])
    /\ UNCHANGED <<teams, team_members, team_invites>>

LeaveTeam_SelectMembership(r) ==
    /\ treq[r].pc = "lt_select_membership"
    /\ IF ~IsMember(treq[r].l_team, treq[r].user)
       THEN Respond(r, 400, "You are not a member of this team")
       ELSE IF Membership(treq[r].l_team, treq[r].user)[1] = "admin"
            THEN Continue(r, [treq[r] EXCEPT !.pc = "lt_count_admins"])
            ELSE Continue(r, [treq[r] EXCEPT !.pc = "lt_delete"])
    /\ UNCHANGED <<teams, team_members, team_invites>>

LeaveTeam_CountAdmins(r) ==
    /\ treq[r].pc = "lt_count_admins"
    /\ IF OtherAdminCount(treq[r].l_team, treq[r].user) = 0
       THEN Continue(r, [treq[r] EXCEPT !.pc = "lt_count_members"])
       ELSE Continue(r, [treq[r] EXCEPT !.pc = "lt_delete"])
    /\ UNCHANGED <<teams, team_members, team_invites>>

LeaveTeam_CountMembers(r) ==
    /\ treq[r].pc = "lt_count_members"
    /\ IF OtherMemberCount(treq[r].l_team, treq[r].user) > 0
       THEN Respond(r, 400, "You are the only admin")
       ELSE Continue(r, [treq[r] EXCEPT !.pc = "lt_delete"])
    /\ UNCHANGED <<teams, team_members, team_invites>>

LeaveTeam_Delete(r) ==
    /\ treq[r].pc = "lt_delete"
    /\ team_members' = DeleteMember(treq[r].l_team, treq[r].user)
    /\ Respond(r, 200, "You have left the team")
    /\ UNCHANGED <<teams, team_invites>>

\* ------------------------------------------------------------------------
\* PUT /api/admin/:teamId/members/:memberId/role (changeRole)
\* ------------------------------------------------------------------------
ChangeRole(r, u, t, m, role) ==
    /\ Free(r)
    /\ Continue(r, [NewReq("changeRole", u, "cr_require_admin")
                      EXCEPT !.teamId = t, !.target = m, !.role = role])
    /\ UNCHANGED <<teams, team_members, team_invites>>

\* the handler without its own-role check
ChangeRole_RequireAdmin_NoSelfCheck(r) ==
    /\ treq[r].pc = "cr_require_admin"
    /\ IF ~RequireTeamAdminOK(treq[r].teamId, treq[r].user)
       THEN Respond(r, 403, "Admin access required.")
       ELSE IF treq[r].role = "member"
            THEN Continue(r, [treq[r] EXCEPT !.pc = "cr_count_admins"])
            ELSE Continue(r, [treq[r] EXCEPT !.pc = "cr_update"])
    /\ UNCHANGED <<teams, team_members, team_invites>>

ChangeRole_RequireAdmin(r) ==
    /\ treq[r].pc = "cr_require_admin"
    /\ IF ~RequireTeamAdminOK(treq[r].teamId, treq[r].user)
       THEN Respond(r, 403, "Admin access required.")
       ELSE IF treq[r].target = treq[r].user
            THEN Respond(r, 400, "You cannot change your own role")
            ELSE IF treq[r].role = "member"
                 THEN Continue(r, [treq[r] EXCEPT !.pc = "cr_count_admins"])
                 ELSE Continue(r, [treq[r] EXCEPT !.pc = "cr_update"])
    /\ UNCHANGED <<teams, team_members, team_invites>>

ChangeRole_CountAdmins(r) ==
    /\ treq[r].pc = "cr_count_admins"
    /\ IF OtherAdminCount(treq[r].teamId, treq[r].target) = 0
       THEN Respond(r, 400, "Cannot demote. Team must have at least one admin.")
       ELSE Continue(r, [treq[r] EXCEPT !.pc = "cr_update"])
    /\ UNCHANGED <<teams, team_members, team_invites>>

ChangeRole_Update(r) ==
    /\ treq[r].pc = "cr_update"
    /\ team_members' = UpdateRole(treq[r].teamId, treq[r].target, treq[r].role)
    /\ Respond(r, 200, "Member role updated successfully")
    /\ UNCHANGED <<teams, team_invites>>

\* ------------------------------------------------------------------------
\* DELETE /api/admin/:teamId/members/:memberId (removeMember)
\* ------------------------------------------------------------------------
RemoveMember(r, u, t, m) ==
    /\ Free(r)
    /\ Continue(r, [NewReq("removeMember", u, "rm_require_admin")
                      EXCEPT !.teamId = t, !.target = m])
    /\ UNCHANGED <<teams, team_members, team_invites>>

\* the handler without its cannot-remove-self check
RemoveMember_RequireAdmin_NoSelfCheck(r) ==
    /\ treq[r].pc = "rm_require_admin"
    /\ IF ~RequireTeamAdminOK(treq[r].teamId, treq[r].user)
       THEN Respond(r, 403, "Admin access required.")
       ELSE Continue(r, [treq[r] EXCEPT !.pc = "rm_select_member"])
    /\ UNCHANGED <<teams, team_members, team_invites>>

RemoveMember_RequireAdmin(r) ==
    /\ treq[r].pc = "rm_require_admin"
    /\ IF ~RequireTeamAdminOK(treq[r].teamId, treq[r].user)
       THEN Respond(r, 403, "Admin access required.")
       ELSE IF treq[r].target = treq[r].user
            THEN Respond(r, 400, "You cannot remove yourself from the team")
            ELSE Continue(r, [treq[r] EXCEPT !.pc = "rm_select_member"])
    /\ UNCHANGED <<teams, team_members, team_invites>>

RemoveMember_SelectMember(r) ==
    /\ treq[r].pc = "rm_select_member"
    /\ IF ~IsMember(treq[r].teamId, treq[r].target)
       THEN Respond(r, 404, "Member not found")
       ELSE IF Membership(treq[r].teamId, treq[r].target)[1] = "admin"
            THEN Continue(r, [treq[r] EXCEPT !.pc = "rm_count_admins"])
            ELSE Continue(r, [treq[r] EXCEPT !.pc = "rm_delete"])
    /\ UNCHANGED <<teams, team_members, team_invites>>

RemoveMember_CountAdmins(r) ==
    /\ treq[r].pc = "rm_count_admins"
    /\ IF OtherAdminCount(treq[r].teamId, treq[r].target) = 0
       THEN Respond(r, 400, "Cannot remove. Team must have at least one admin.")
       ELSE Continue(r, [treq[r] EXCEPT !.pc = "rm_delete"])
    /\ UNCHANGED <<teams, team_members, team_invites>>

RemoveMember_Delete(r) ==
    /\ treq[r].pc = "rm_delete"
    /\ team_members' = DeleteMember(treq[r].teamId, treq[r].target)
    /\ Respond(r, 200, "Member removed successfully")
    /\ UNCHANGED <<teams, team_invites>>

\* ------------------------------------------------------------------------
\* POST /api/admin/:teamId/invites (createInvite)
\* ------------------------------------------------------------------------
\* SELECT * FROM team_invites WHERE team_id = ? AND email = ?
\*   AND status = 'pending' AND expires_at > NOW()
PendingInvites(t, e) ==
    {i \in 1..Len(team_invites) :
        /\ team_invites[i].team_id = t
        /\ team_invites[i].email = e
        /\ team_invites[i].status = "pending"
        /\ ~team_invites[i].elapsed}

\* fewer than n invite rows exist or are about to be inserted
InvitesBelow(n) ==
    Len(team_invites)
      + Cardinality({q \in Slots : InFlight(q) /\ treq[q].op = "createInvite"}) < n

\* cap bounds the number of invite rows of the specification
CreateInvite(r, u, t, e, cap) ==
    /\ Free(r)
    /\ InvitesBelow(cap)
    /\ Continue(r, [NewReq("createInvite", u, "ci_require_admin")
                      EXCEPT !.teamId = t, !.email = NormalizeEmail(e)])
    /\ UNCHANGED <<teams, team_members, team_invites>>

CreateInvite_RequireAdmin(r) ==
    /\ treq[r].pc = "ci_require_admin"
    /\ IF ~RequireTeamAdminOK(treq[r].teamId, treq[r].user)
       THEN Respond(r, 403, "Admin access required.")
       ELSE Continue(r, [treq[r] EXCEPT !.pc = "ci_select_member"])
    /\ UNCHANGED <<teams, team_members, team_invites>>

CreateInvite_SelectMember(r) ==
    /\ treq[r].pc = "ci_select_member"
    /\ IF \E u \in MembersOf(treq[r].teamId) : EmailOf(u) = treq[r].email
       THEN Respond(r, 400, "User is already a team member")
       ELSE Continue(r, [treq[r] EXCEPT !.pc = "ci_select_invite"])
    /\ UNCHANGED <<teams, team_members, team_invites>>

CreateInvite_SelectInvite(r) ==
    /\ treq[r].pc = "ci_select_invite"
    /\ IF PendingInvites(treq[r].teamId, treq[r].email) # {}
       THEN Respond(r, 400, "An invite for this email is already pending")
       ELSE Continue(r, [treq[r] EXCEPT !.pc = "ci_insert"])
    /\ UNCHANGED <<teams, team_members, team_invites>>

CreateInvite_Insert(r) ==
    /\ treq[r].pc = "ci_insert"
    /\ team_invites' = Append(team_invites,
           [team_id |-> treq[r].teamId, email |-> treq[r].email,
            invited_by |-> treq[r].user, status |-> "pending", elapsed |-> FALSE])
    /\ Continue(r, [treq[r] EXCEPT !.pc = "ci_select_slug", !.token = Len(team_invites) + 1])
    /\ UNCHANGED <<teams, team_members>>

CreateInvite_SelectSlug(r) ==
    /\ treq[r].pc = "ci_select_slug"
    /\ Respond(r, 201, "Invite created successfully")
    /\ UNCHANGED <<teams, team_members, team_invites>>

\* ------------------------------------------------------------------------
\* POST /api/teams/invites/accept (acceptInvite)
\* ------------------------------------------------------------------------
\* the statement without effect
UpdateInviteStatus_NoEffect(i, st) == team_invites

\* UPDATE team_invites SET status = ? WHERE id = ?
UpdateInviteStatus(i, st) == [team_invites EXCEPT ![i].status = st]

\* `This invite has already been ${invite.status}`
AlreadyUsed(st) ==
    IF st = "accepted" THEN "This invite has already been accepted"
    ELSE IF st = "cancelled" THEN "This invite has already been cancelled"
    ELSE "This invite has already been expired"

AcceptInvite(r, u, tok) ==
    /\ Free(r)
    /\ Continue(r, [NewReq("acceptInvite", u, "ai_select_invite") EXCEPT !.token = tok])
    /\ UNCHANGED <<teams, team_members, team_invites>>

AcceptInvite_SelectInvite(r) ==
    /\ treq[r].pc = "ai_select_invite"
    /\ IF treq[r].token \notin 1..Len(team_invites)
       THEN Respond(r, 404, "Invite not found")
       ELSE IF team_invites[treq[r].token].elapsed
            THEN Respond(r, 400, "This invite has expired")
       ELSE IF team_invites[treq[r].token].status # "pending"
            THEN Respond(r, 400, AlreadyUsed(team_invites[treq[r].token].status))
            ELSE Continue(r, [treq[r] EXCEPT !.pc = "ai_select_user", !.l_team = team_invites[treq[r].token].team_id,
                                       !.email = team_invites[treq[r].token].email])
    /\ UNCHANGED <<teams, team_members, team_invites>>

AcceptInvite_SelectUser(r) ==
    /\ treq[r].pc = "ai_select_user"
    /\ IF LowerEmail(EmailOf(treq[r].user)) # LowerEmail(treq[r].email)
       THEN Respond(r, 403, "This invite was sent to a different email address")
       ELSE Continue(r, [treq[r] EXCEPT !.pc = "ai_select_existing"])
    /\ UNCHANGED <<teams, team_members, team_invites>>

AcceptInvite_SelectExisting(r) ==
    /\ treq[r].pc = "ai_select_existing"
    /\ IF IsMember(treq[r].l_team, treq[r].user)
       THEN Continue(r, [treq[r] EXCEPT !.pc = "ai_update_already"])
       ELSE Continue(r, [treq[r] EXCEPT !.pc = "ai_insert"])
    /\ UNCHANGED <<teams, team_members, team_invites>>

AcceptInvite_UpdateAlready(r) ==
    /\ treq[r].pc = "ai_update_already"
    /\ team_invites' = UpdateInviteStatus(treq[r].token, "accepted")
    /\ Respond(r, 200, "You are already a member of this team")
    /\ UNCHANGED <<teams, team_members>>

AcceptInvite_Insert(r) ==
    /\ treq[r].pc = "ai_insert"
    /\ IF UniqueMembership(treq[r].l_team, treq[r].user)
       THEN /\ team_members' = InsertMember(treq[r].l_team, treq[r].user, "member")
            /\ Continue(r, [treq[r] EXCEPT !.pc = "ai_update"])
       ELSE /\ Respond(r, 500, "Failed to accept invite")
            /\ UNCHANGED team_members
    /\ UNCHANGED <<teams, team_invites>>

AcceptInvite_Update(r) ==
    /\ treq[r].pc = "ai_update"
    /\ team_invites' = UpdateInviteStatus(treq[r].token, "accepted")
    /\ Respond(r, 200, "You have successfully joined the team")
    /\ UNCHANGED <<teams, team_members>>

\* ------------------------------------------------------------------------
\* DELETE /api/admin/:teamId/invites/:inviteId (cancelInvite); the invite
\* with id i is the one with token i
\* ------------------------------------------------------------------------
CancelInvite(r, u, t, i) ==
    /\ Free(r)
    /\ Continue(r, [NewReq("cancelInvite", u, "cn_require_admin")
                      EXCEPT !.teamId = t, !.token = i])
    /\ UNCHANGED <<teams, team_members, team_invites>>

CancelInvite_RequireAdmin(r) ==
    /\ treq[r].pc = "cn_require_admin"
    /\ IF ~RequireTeamAdminOK(treq[r].teamId, treq[r].user)
       THEN Respond(r, 403, "Admin access required.")
       ELSE Continue(r, [treq[r] EXCEPT !.pc = "cn_select_invite"])
    /\ UNCHANGED <<teams, team_members, team_invites>>

\* SELECT * FROM team_invites WHERE id = ? AND team_id = ?
CancelInvite_SelectInvite(r) ==
    /\ treq[r].pc = "cn_select_invite"
    /\ IF treq[r].token \in 1..Len(team_invites)
          /\ team_invites[treq[r].token].team_id = treq[r].teamId
       THEN Continue(r, [treq[r] EXCEPT !.pc = "cn_update"])
       ELSE Respond(r, 404, "Invite not found")
    /\ UNCHANGED <<teams, team_members, team_invites>>

\* the update restricted to invites that are still pending
CancelInvite_Update_PendingOnly(r) ==
    /\ treq[r].pc = "cn_update"
    /\ team_invites' = IF team_invites[treq[r].token].status = "pending"
                       THEN UpdateInviteStatus(treq[r].token, "cancelled")
                       ELSE team_invites
    /\ Respond(r, 200, "Invite cancelled successfully")
    /\ UNCHANGED <<teams, team_members>>

CancelInvite_Update(r) ==
    /\ treq[r].pc = "cn_update"
    /\ team_invites' = UpdateInviteStatus(treq[r].token, "cancelled")
    /\ Respond(r, 200, "Invite cancelled successfully")
    /\ UNCHANGED <<teams, team_members>>

CancelInviteSteps(r) ==
    \/ CancelInvite_RequireAdmin(r)
    \/ CancelInvite_SelectInvite(r)
    \/ CancelInvite_Update(r)

\* expires_at TIMESTAMP DEFAULT (CURRENT_TIMESTAMP + INTERVAL 7 DAY): the
\* clock passes the expiry time of invite i
InviteExpires(i) ==
    /\ i \in 1..Len(team_invites)
    /\ ~team_invites[i].elapsed
    /\ team_invites' = [team_invites EXCEPT ![i].elapsed = TRUE]
    /\ UNCHANGED <<teams, team_members, treq, contentVars>>

\* ------------------------------------------------------------------------
\* A statement throws (connection lost, deadlock victim, ...): the handler's
\* catch block answers 500 and nothing that was written is undone
\* ------------------------------------------------------------------------
StoreFailure(r) ==
    /\ InFlight(r)
    /\ Respond(r, 500, "Store failure")
    /\ UNCHANGED <<teams, team_members, team_invites>>

\* ------------------------------------------------------------------------
\* Specifications of the team/admin handlers
\* ------------------------------------------------------------------------
CreateTeamSteps(r) ==
    \/ CreateTeam_SelectSlug(r)
    \/ CreateTeam_InsertTeam(r)
    \/ CreateTeam_InsertMember(r)

AddMemberSteps(r) ==
    \/ AddMember_SelectTeam(r)
    \/ AddMember_SelectMembership(r)
    \/ AddMember_SelectUser(r)
    \/ AddMember_SelectExisting(r)
    \/ AddMember_Insert(r)

LeaveTeamSteps(r) ==
    \/ LeaveTeam_SelectTeam(r)
    \/ LeaveTeam_SelectMembership(r)
    \/ LeaveTeam_CountAdmins(r)
    \/ LeaveTeam_CountMembers(r)
    \/ LeaveTeam_Delete(r)

\* a request of any kind arrives in slot r, made by one of the users in U
TeamArrival(r, U) ==
    \/ \E u \in U, s \in Slugs : CreateTeam(r, u, s)
    \/ \E u \in U, s \in Slugs, e \in {EmailOf(v) : v \in U} : AddMember(r, u, s, e)
    \/ \E u \in U, s \in Slugs : LeaveTeam(r, u, s)
    \/ \E u \in U, t \in TeamIds, m \in U, role \in {"admin", "member"} : ChangeRole(r, u, t, m, role)
    \/ \E u \in U, t \in TeamIds, m \in U : RemoveMember(r, u, t, m)
    \/ \E u \in U, t \in TeamIds, e \in {EmailOf(v) : v \in U} :
          CreateInvite(r, u, t, e, MaxInvites)
    \/ \E u \in U, tok \in Tokens : AcceptInvite(r, u, tok)

TeamSteps(r) ==
    \/ CreateTeamSteps(r)
    \/ AddMemberSteps(r)
    \/ LeaveTeamSteps(r)
    \/ ChangeRole_RequireAdmin(r)
    \/ ChangeRole_CountAdmins(r)
    \/ ChangeRole_Update(r)
    \/ RemoveMember_RequireAdmin(r)
    \/ RemoveMember_SelectMember(r)
    \/ RemoveMember_CountAdmins(r)
    \/ RemoveMember_Delete(r)
    \/ CreateInvite_RequireAdmin(r)
    \/ CreateInvite_SelectMember(r)
    \/ CreateInvite_SelectInvite(r)
    \/ CreateInvite_Insert(r)
    \/ CreateInvite_SelectSlug(r)
    \/ AcceptInvite_SelectInvite(r)
    \/ AcceptInvite_SelectUser(r)
    \/ AcceptInvite_SelectExisting(r)
    \/ AcceptInvite_UpdateAlready(r)
    \/ AcceptInvite_Insert(r)
    \/ AcceptInvite_Update(r)

\* requests are handled concurrently: their statements interleave
TeamNext == \E r \in Slots : TeamArrival(r, ConcUsers) \/ TeamSteps(r)

TeamSpec == TeamInit /\ [][TeamNext]_vars

\* requests are handled one at a time: each handler runs to its response
\* before the next request arrives
TeamSeqNext == TeamArrival(SeqSlot, Users) \/ TeamSteps(SeqSlot)

TeamSeqSpec == TeamInit /\ [][TeamSeqNext]_vars

\* concurrent createTeam, addMember and leaveTeam requests with a store whose
\* statements may fail
TeamFailNext ==
    \E r \in Slots :
        \/ \E u \in ConcUsers, s \in Slugs : CreateTeam(r, u, s)
        \/ \E u \in ConcUsers, s \in Slugs, e \in {EmailOf(v) : v \in ConcUsers} : AddMember(r, u, s, e)
        \/ \E u \in ConcUsers, s \in Slugs : LeaveTeam(r, u, s)
        \/ CreateTeamSteps(r)
        \/ AddMemberSteps(r)
        \/ LeaveTeamSteps(r)
        \/ StoreFailure(r)

TeamFailSpec == TeamInit /\ [][TeamFailNext]_vars
\* ------------------------------------------------------------------------
\* Content tables
\* ------------------------------------------------------------------------
QuestionIds == 1..MaxQuestions
AnswerIds == 1..MaxAnswers
VoteTypes == {"up", "down"}

\* a row of the questions table (a deleted row keeps its id);
\* last_activity_at is "current" when the timestamp is not earlier than the
\* latest passage of time (TimePasses), and "earlier" otherwise
QuestionRow(t, u) ==
    [live |-> TRUE, team_id |-> t, user_id |-> u, score |-> 0, answer_count |-> 0,
     last_activity_at |-> "current"]

\* a row of the answers table
AnswerRow(q, u) ==
    [live |-> TRUE, question_id |-> q, user_id |-> u, score |-> 0, is_accepted |-> FALSE]

QuestionExists(q) == q \in 1..Len(questions) /\ questions[q].live

AnswerExists(a) == a \in 1..Len(answers) /\ answers[a].live

\* a team with an admin (user 1) and a plain member (user 2), as createTeam
\* and addMember leave it
TeamFixture ==
    /\ teams = <<"acme">>
    /\ team_members = [k \in TeamIds \X Users |->
                          IF k = <<1, 1>> THEN <<"admin">>
                          ELSE IF k = <<1, 2>> THEN <<"member">> ELSE <<>>]
    /\ team_invites = <<>>
    /\ treq = [r \in Slots |-> NoReq]

\* ------------------------------------------------------------------------
\* Specifications of the admin and invite handlers over existing teams
\* ------------------------------------------------------------------------
\* team 1 (acme) with admin 1 and plain member 2, team 2 (beta) with admin 3:
\* user 3 is no member of team 1 and an admin of a different team
AdminInit ==
    /\ teams = <<"acme", "beta">>
    /\ team_members = [k \in {1, 2} \X Users |->
                          IF k = <<1, 1>> \/ k = <<2, 3>> THEN <<"admin">>
                          ELSE IF k = <<1, 2>> THEN <<"member">> ELSE <<>>]
    /\ team_invites = <<>>
    /\ treq = [r \in Slots |-> NoReq]
    /\ questions = <<>>
    /\ answers = <<>>
    /\ votes = {}
    /\ tags = <<>>
    /\ question_tags = {}
    /\ comments = <<>>
    /\ creq = [r \in Slots |-> NoCReq]

AdminSteps(r) ==
    \/ ChangeRole_RequireAdmin(r)
    \/ ChangeRole_CountAdmins(r)
    \/ ChangeRole_Update(r)
    \/ RemoveMember_RequireAdmin(r)
    \/ RemoveMember_SelectMember(r)
    \/ RemoveMember_CountAdmins(r)
    \/ RemoveMember_Delete(r)
    \/ CreateInvite_RequireAdmin(r)
    \/ CreateInvite_SelectMember(r)
    \/ CreateInvite_SelectInvite(r)
    \/ CreateInvite_Insert(r)
    \/ CreateInvite_SelectSlug(r)
    \/ CancelInviteSteps(r)

\* the requests of the admin router, made by any user on either team and
\* handled one at a time
AdminSeqNext ==
    \/ \E u \in Users, t \in {1, 2}, m \in Users, role \in {"admin", "member"} :
          ChangeRole(SeqSlot, u, t, m, role)
    \/ \E u \in Users, t \in {1, 2}, m \in Users : RemoveMember(SeqSlot, u, t, m)
    \/ \E u \in Users, t \in {1, 2}, e \in RawEmails :
          CreateInvite(SeqSlot, u, t, e, MaxInvites)
    \/ \E u \in Users, t \in {1, 2}, i \in Tokens : CancelInvite(SeqSlot, u, t, i)
    \/ AdminSteps(SeqSlot)

AdminSeqSpec == AdminInit /\ [][AdminSeqNext]_vars

\* team 1 with admin 1 and plain member 2; no invites
InviteInit ==
    /\ TeamFixture
    /\ questions = <<>>
    /\ answers = <<>>
    /\ votes = {}
    /\ tags = <<>>
    /\ question_tags = {}
    /\ comments = <<>>
    /\ creq = [r \in Slots |-> NoCReq]

InviteSteps(r) ==
    \/ AddMemberSteps(r)
    \/ ChangeRole_RequireAdmin(r)
    \/ ChangeRole_CountAdmins(r)
    \/ ChangeRole_Update(r)
    \/ CreateInvite_RequireAdmin(r)
    \/ CreateInvite_SelectMember(r)
    \/ CreateInvite_SelectInvite(r)
    \/ CreateInvite_Insert(r)
    \/ CreateInvite_SelectSlug(r)
    \/ AcceptInvite_SelectInvite(r)
    \/ AcceptInvite_SelectUser(r)
    \/ AcceptInvite_SelectExisting(r)
    \/ AcceptInvite_UpdateAlready(r)
    \/ AcceptInvite_Insert(r)
    \/ AcceptInvite_Update(r)
    \/ CancelInviteSteps(r)

\* the life of invites to team 1, requests handled one at a time while time
\* passes: admin 1 invites, cancels, adds user 3 directly and changes the role
\* of user 3; users 2 and 3 redeem tokens
InviteSeqNext ==
    \/ \E e \in RawEmails : CreateInvite(SeqSlot, 1, 1, e, MaxInvites)
    \/ \E i \in Tokens : CancelInvite(SeqSlot, 1, 1, i)
    \/ \E u \in {2, 3}, tok \in Tokens : AcceptInvite(SeqSlot, u, tok)
    \/ \E s \in Slugs : AddMember(SeqSlot, 1, s, EmailOf(3))
    \/ \E role \in {"admin", "member"} : ChangeRole(SeqSlot, 1, 1, 3, role)
    \/ \E i \in Tokens : InviteExpires(i)
    \/ InviteSteps(SeqSlot)

InviteSeqSpec == InviteInit /\ [][InviteSeqNext]_vars

\* the invite requests of the admin (user 1) and of an invited user (user 3)
\* on team 1, handled concurrently while time passes
InviteNext ==
    \/ \E r \in Slots :
          \/ \E e \in RawEmails :
                CreateInvite(r, 1, 1, e, MaxRaceInvites)
          \/ \E i \in 1..MaxRaceInvites : CancelInvite(r, 1, 1, i)
          \/ \E tok \in 1..MaxRaceInvites : AcceptInvite(r, 3, tok)
          \/ CreateInvite_RequireAdmin(r)
          \/ CreateInvite_SelectMember(r)
          \/ CreateInvite_SelectInvite(r)
          \/ CreateInvite_Insert(r)
          \/ CreateInvite_SelectSlug(r)
          \/ AcceptInvite_SelectInvite(r)
          \/ AcceptInvite_SelectUser(r)
          \/ AcceptInvite_SelectExisting(r)
          \/ AcceptInvite_UpdateAlready(r)
          \/ AcceptInvite_Insert(r)
          \/ AcceptInvite_Update(r)
          \/ CancelInviteSteps(r)
    \/ \E i \in 1..MaxRaceInvites : InviteExpires(i)

InviteSpec == InviteInit /\ [][InviteNext]_vars

\* ------------------------------------------------------------------------
\* POST /api/votes (vote)
\* ------------------------------------------------------------------------
\* SELECT * FROM votes WHERE votable_type = ? AND votable_id = ? AND user_id = ?
VoteRows(vt, vid, u) ==
    {v \in votes : v.votable_type = vt /\ v.votable_id = vid /\ v.user_id = u}

StoredVote(vt, vid, u) ==
    IF VoteRows(vt, vid, u) = {} THEN "none"
    ELSE (CHOOSE v \in VoteRows(vt, vid, u) : TRUE).vote_type

ScoreOf(vt, vid) ==
    IF vt = "question"
    THEN IF QuestionExists(vid) THEN questions[vid].score ELSE 0
    ELSE IF AnswerExists(vid) THEN answers[vid].score ELSE 0

\* the votes table without its unique key
UniqueVote_NoKey(vt, vid, u) == TRUE

\* UNIQUE KEY unique_vote (votable_type, votable_id, user_id)
UniqueVote(vt, vid, u) == VoteRows(vt, vid, u) = {}

\* const scoreChange = voteType === 'up' ? 1 : -1 (new vote)
NewVoteChange(d) == IF d = "up" THEN 1 ELSE -1

\* const scoreChange = voteType === 'up' ? -1 : 1 (toggle off)
ToggleOffChange(d) == IF d = "up" THEN -1 ELSE 1

\* the switch counted as a single step
SwitchChange_ByOne(d) == IF d = "up" THEN 1 ELSE -1

\* const scoreChange = voteType === 'up' ? 2 : -2 (switch)
SwitchChange(d) == IF d = "up" THEN 2 ELSE -2

\* UPDATE ${votableType}s SET score = score + ? WHERE id = ?
\* UPDATE questions SET last_activity_at = CURRENT_TIMESTAMP WHERE id = ?
TouchQuestion(q) ==
    questions' = [i \in DOMAIN questions |->
                     IF i = q /\ questions[i].live
                     THEN [questions[i] EXCEPT !.last_activity_at = "current"]
                     ELSE questions[i]]

\* time passes while no request is being handled: every stored timestamp
\* is now earlier than any request that arrives afterwards
TimePasses ==
    /\ \A r \in Slots : CFree(r)
    /\ \E i \in DOMAIN questions : questions[i].last_activity_at = "current"
    /\ questions' = [i \in DOMAIN questions |->
                        [questions[i] EXCEPT !.last_activity_at = "earlier"]]
    /\ UNCHANGED <<teamVars, creq, answers, votes, tags, question_tags, comments>>

\* UPDATE ${votableType}s SET score = score + ? WHERE id = ?  (the change is
\* never 0, so a questions row is changed and its ON UPDATE CURRENT_TIMESTAMP
\* columns are set)
UpdateScore(vt, vid, change) ==
    IF vt = "question"
    THEN /\ questions' = [i \in DOMAIN questions |->
                             IF i = vid /\ questions[i].live
                             THEN [questions[i] EXCEPT !.score = @ + change,
                                                       !.last_activity_at = "current"]
                             ELSE questions[i]]
         /\ UNCHANGED answers
    ELSE /\ answers' = [i \in DOMAIN answers |->
                           IF i = vid /\ answers[i].live
                           THEN [answers[i] EXCEPT !.score = @ + change]
                           ELSE answers[i]]
         /\ UNCHANGED questions

Vote(r, u, vt, vid, d) ==
    /\ CFree(r)
    /\ CContinue(r, [NewCReq("vote", u, "v_select")
                       EXCEPT !.vtype = vt, !.id = vid, !.dir = d,
                              !.g_vote = StoredVote(vt, vid, u),
                              !.g_score = ScoreOf(vt, vid)])
    /\ UNCHANGED <<questions, answers, votes, tags, question_tags, comments>>

Vote_Select(r) ==
    /\ creq[r].pc = "v_select"
    /\ LET c == creq[r] IN
       IF VoteRows(c.vtype, c.id, c.user) # {}
       THEN IF StoredVote(c.vtype, c.id, c.user) = c.dir
            THEN CContinue(r, [c EXCEPT !.pc = "v_delete"])
            ELSE CContinue(r, [c EXCEPT !.pc = "v_update"])
       ELSE CContinue(r, [c EXCEPT !.pc = "v_insert"])
    /\ UNCHANGED <<questions, answers, votes, tags, question_tags, comments>>

Vote_Delete(r) ==
    /\ creq[r].pc = "v_delete"
    /\ votes' = votes \ VoteRows(creq[r].vtype, creq[r].id, creq[r].user)
    /\ CContinue(r, [creq[r] EXCEPT !.pc = "v_score_removed"])
    /\ UNCHANGED <<questions, answers, tags, question_tags, comments>>

Vote_ScoreRemoved(r) ==
    /\ creq[r].pc = "v_score_removed"
    /\ UpdateScore(creq[r].vtype, creq[r].id, ToggleOffChange(creq[r].dir))
    /\ CRespond(r, 200, "Vote removed")
    /\ UNCHANGED <<votes, tags, question_tags, comments>>

Vote_Update(r) ==
    /\ creq[r].pc = "v_update"
    /\ LET rows == VoteRows(creq[r].vtype, creq[r].id, creq[r].user) IN
       votes' = (votes \ rows) \cup {[v EXCEPT !.vote_type = creq[r].dir] : v \in rows}
    /\ CContinue(r, [creq[r] EXCEPT !.pc = "v_score_updated"])
    /\ UNCHANGED <<questions, answers, tags, question_tags, comments>>

Vote_ScoreUpdated(r) ==
    /\ creq[r].pc = "v_score_updated"
    /\ UpdateScore(creq[r].vtype, creq[r].id, SwitchChange(creq[r].dir))
    /\ CRespond(r, 200, "Vote updated")
    /\ UNCHANGED <<votes, tags, question_tags, comments>>

Vote_Insert(r) ==
    /\ creq[r].pc = "v_insert"
    /\ IF UniqueVote(creq[r].vtype, creq[r].id, creq[r].user)
       THEN /\ votes' = votes \cup {[votable_type |-> creq[r].vtype,
                                      votable_id |-> creq[r].id,
                                      user_id |-> creq[r].user,
                                      vote_type |-> creq[r].dir]}
            /\ CContinue(r, [creq[r] EXCEPT !.pc = "v_score_added"])
       ELSE /\ CRespond(r, 500, "Failed to process vote")
            /\ UNCHANGED votes
    /\ UNCHANGED <<questions, answers, tags, question_tags, comments>>

Vote_ScoreAdded(r) ==
    /\ creq[r].pc = "v_score_added"
    /\ UpdateScore(creq[r].vtype, creq[r].id, NewVoteChange(creq[r].dir))
    /\ IF creq[r].vtype = "question"
       THEN CContinue(r, [creq[r] EXCEPT !.pc = "v_activity", !.l_q = creq[r].id])
       ELSE CContinue(r, [creq[r] EXCEPT !.pc = "v_select_answer"])
    /\ UNCHANGED <<votes, tags, question_tags, comments>>

\* SELECT question_id FROM answers WHERE id = ?
Vote_SelectAnswer(r) ==
    /\ creq[r].pc = "v_select_answer"
    /\ IF AnswerExists(creq[r].id)
       THEN CContinue(r, [creq[r] EXCEPT !.pc = "v_activity",
                                          !.l_q = answers[creq[r].id].question_id])
       ELSE CRespond(r, 201, "Vote added")
    /\ UNCHANGED <<questions, answers, votes, tags, question_tags, comments>>

\* UPDATE questions SET last_activity_at = CURRENT_TIMESTAMP WHERE id = ?
Vote_Activity(r) ==
    /\ creq[r].pc = "v_activity"
    /\ TouchQuestion(creq[r].l_q)
    /\ CRespond(r, 201, "Vote added")
    /\ UNCHANGED <<answers, votes, tags, question_tags, comments>>

VoteSteps(r) ==
    \/ Vote_Select(r)
    \/ Vote_Delete(r)
    \/ Vote_ScoreRemoved(r)
    \/ Vote_Update(r)
    \/ Vote_ScoreUpdated(r)
    \/ Vote_Insert(r)
    \/ Vote_ScoreAdded(r)
    \/ Vote_SelectAnswer(r)
    \/ Vote_Activity(r)

\* a question with one answer, no votes cast yet
VoteInit ==
    /\ TeamFixture
    /\ questions = <<QuestionRow(1, 1)>>
    /\ answers = <<AnswerRow(1, 2)>>
    /\ votes = {}
    /\ tags = <<>>
    /\ question_tags = {}
    /\ comments = <<>>
    /\ creq = [r \in Slots |-> NoCReq]

\* vote requests handled one at a time
VoteSeqNext ==
    \* ids sent with the requests: 1 is an existing row, 2 is not; the
    \* voters are user 2, a member of the team, and user 3, who is not
    \/ \E u \in {2, 3}, vt \in {"question", "answer"}, vid \in {1, 2}, d \in VoteTypes :
          Vote(SeqSlot, u, vt, vid, d)
    \/ VoteSteps(SeqSlot)

VoteSeqSpec == VoteInit /\ [][VoteSeqNext]_vars

\* a statement of a vote request throws: the catch block answers 500 and
\* nothing that was written is undone (no statement runs in a transaction)
Vote_StoreFailure(r) ==
    /\ creq[r].op = "vote"
    /\ ~CFree(r)
    /\ ScoreOf(creq[r].vtype, creq[r].id) \in -MaxFailScore..MaxFailScore
    /\ CRespond(r, 500, "Failed to process vote")
    /\ UNCHANGED <<questions, answers, votes, tags, question_tags, comments>>

\* vote requests of member 2 handled one at a time, with a store whose
\* statements may fail
VoteFailNext ==
    \/ \E vt \in {"question", "answer"}, d \in VoteTypes : Vote(SeqSlot, 2, vt, 1, d)
    \/ VoteSteps(SeqSlot)
    \/ Vote_StoreFailure(SeqSlot)

VoteFailSpec == VoteInit /\ [][VoteFailNext]_vars

\* a vote request arrives while the target's score is within MaxRaceScore of 0
VoteBounded(r, u, vt, vid, d) ==
    /\ ScoreOf(vt, vid) \in -MaxRaceScore..MaxRaceScore
    /\ Vote(r, u, vt, vid, d)

\* vote requests of member 2 handled concurrently, their statements
\* interleaved
VoteNext ==
    \E r \in Slots :
        \/ \E d \in VoteTypes : VoteBounded(r, 2, "question", 1, d)
        \/ VoteBounded(r, 2, "answer", 1, "up")
        \/ VoteSteps(r)

VoteSpec == VoteInit /\ [][VoteNext]_vars

\* vote requests of member 2 handled one at a time, with time passing
\* between them
VoteTimeNext ==
    \/ \E vt \in {"question", "answer"}, d \in VoteTypes : Vote(SeqSlot, 2, vt, 1, d)
    \/ VoteSteps(SeqSlot)
    \/ TimePasses

VoteTimeSpec == VoteInit /\ [][VoteTimeNext]_vars

\* ------------------------------------------------------------------------
\* answers router: POST / (create), DELETE /:id, POST /:id/accept
\* ------------------------------------------------------------------------
AnswersOf(q) == {a \in 1..Len(answers) : answers[a].live /\ answers[a].question_id = q}

AcceptedOf(q) == {a \in AnswersOf(q) : answers[a].is_accepted}

\* UPDATE questions SET answer_count = answer_count + ? WHERE id = ?
AddAnswerCount(q, change) ==
    questions' = [i \in DOMAIN questions |->
                     IF i = q /\ questions[i].live
                     THEN [questions[i] EXCEPT !.answer_count = @ + change,
                                               !.last_activity_at = "current"]
                     ELSE questions[i]]

CreateAnswer(r, u, q) ==
    /\ CFree(r)
    /\ Len(answers)
         + Cardinality({p \in Slots : creq[p].pc \in {"ca_select_question",
                                                      "ca_select_membership",
                                                      "ca_insert"}}) < MaxAnswers
    /\ CContinue(r, [NewCReq("createAnswer", u, "ca_select_question") EXCEPT !.id = q])
    /\ UNCHANGED <<questions, answers, votes, tags, question_tags, comments>>

CreateAnswer_SelectQuestion(r) ==
    /\ creq[r].pc = "ca_select_question"
    /\ IF QuestionExists(creq[r].id)
       THEN CContinue(r, [creq[r] EXCEPT !.pc = "ca_select_membership",
                                          !.l_team = questions[creq[r].id].team_id,
                                          !.l_owner = questions[creq[r].id].user_id])
       ELSE CRespond(r, 404, "Question not found")
    /\ UNCHANGED <<questions, answers, votes, tags, question_tags, comments>>

CreateAnswer_SelectMembership(r) ==
    /\ creq[r].pc = "ca_select_membership"
    /\ IF IsMember(creq[r].l_team, creq[r].user)
       THEN CContinue(r, [creq[r] EXCEPT !.pc = "ca_insert"])
       ELSE CRespond(r, 403, "Not a member of this team")
    /\ UNCHANGED <<questions, answers, votes, tags, question_tags, comments>>

CreateAnswer_Insert(r) ==
    /\ creq[r].pc = "ca_insert"
    /\ answers' = Append(answers, AnswerRow(creq[r].id, creq[r].user))
    /\ CContinue(r, [creq[r] EXCEPT !.pc = "ca_count", !.l_id = Len(answers) + 1])
    /\ UNCHANGED <<questions, votes, tags, question_tags, comments>>

CreateAnswer_Count(r) ==
    /\ creq[r].pc = "ca_count"
    /\ AddAnswerCount(creq[r].id, 1)
    /\ CContinue(r, [creq[r] EXCEPT !.pc = "ca_notify"])
    /\ UNCHANGED <<answers, votes, tags, question_tags, comments>>

\* await createNotification(...): its own failures are swallowed
CreateAnswer_Notify(r) ==
    /\ creq[r].pc = "ca_notify"
    /\ CRespond(r, 201, "Answer created successfully")
    /\ UNCHANGED <<questions, answers, votes, tags, question_tags, comments>>

DeleteAnswer(r, u, a) ==
    /\ CFree(r)
    /\ CContinue(r, [NewCReq("deleteAnswer", u, "da_select_answer") EXCEPT !.id = a])
    /\ UNCHANGED <<questions, answers, votes, tags, question_tags, comments>>

\* SELECT a.user_id, a.question_id, q.team_id FROM answers a JOIN questions q ...
DeleteAnswer_SelectAnswer(r) ==
    /\ creq[r].pc = "da_select_answer"
    /\ IF AnswerExists(creq[r].id) /\ QuestionExists(answers[creq[r].id].question_id)
       THEN CContinue(r, [creq[r] EXCEPT !.pc = "da_select_membership",
                                          !.l_owner = answers[creq[r].id].user_id,
                                          !.l_q = answers[creq[r].id].question_id,
                                          !.l_team = questions[answers[creq[r].id].question_id].team_id])
       ELSE CRespond(r, 404, "Answer not found")
    /\ UNCHANGED <<questions, answers, votes, tags, question_tags, comments>>

DeleteAnswer_SelectMembership(r) ==
    /\ creq[r].pc = "da_select_membership"
    /\ LET c == creq[r] IN
       IF c.l_owner # c.user
          /\ (~IsMember(c.l_team, c.user) \/ Membership(c.l_team, c.user)[1] # "admin")
       THEN CRespond(r, 403, "Not authorized to delete this answer")
       ELSE CContinue(r, [c EXCEPT !.pc = "da_delete"])
    /\ UNCHANGED <<questions, answers, votes, tags, question_tags, comments>>

\* DELETE FROM answers WHERE id = ?
DeleteAnswer_Delete(r) ==
    /\ creq[r].pc = "da_delete"
    /\ answers' = [i \in DOMAIN answers |->
                      IF i = creq[r].id THEN [answers[i] EXCEPT !.live = FALSE, !.is_accepted = FALSE]
                      ELSE answers[i]]
    /\ CContinue(r, [creq[r] EXCEPT !.pc = "da_count"])
    /\ UNCHANGED <<questions, votes, tags, question_tags, comments>>

DeleteAnswer_Count(r) ==
    /\ creq[r].pc = "da_count"
    /\ AddAnswerCount(creq[r].l_q, -1)
    /\ CRespond(r, 200, "Answer deleted successfully")
    /\ UNCHANGED <<answers, votes, tags, question_tags, comments>>

AcceptAnswer(r, u, a) ==
    /\ CFree(r)
    /\ CContinue(r, [NewCReq("acceptAnswer", u, "aa_select_answer") EXCEPT !.id = a])
    /\ UNCHANGED <<questions, answers, votes, tags, question_tags, comments>>

AcceptAnswer_SelectAnswer(r) ==
    /\ creq[r].pc = "aa_select_answer"
    /\ IF AnswerExists(creq[r].id) /\ QuestionExists(answers[creq[r].id].question_id)
       THEN CContinue(r, [creq[r] EXCEPT !.pc = "aa_select_membership",
                                          !.l_owner = answers[creq[r].id].user_id,
                                          !.l_q = answers[creq[r].id].question_id,
                                          !.l_team = questions[answers[creq[r].id].question_id].team_id])
       ELSE CRespond(r, 404, "Answer not found")
    /\ UNCHANGED <<questions, answers, votes, tags, question_tags, comments>>

AcceptAnswer_SelectMembership(r) ==
    /\ creq[r].pc = "aa_select_membership"
    /\ IF IsMember(creq[r].l_team, creq[r].user)
       THEN CContinue(r, [creq[r] EXCEPT !.pc = "aa_clear"])
       ELSE CRespond(r, 403, "Team membership required")
    /\ UNCHANGED <<questions, answers, votes, tags, question_tags, comments>>

\* UPDATE answers SET is_accepted = 0 WHERE question_id = ?
AcceptAnswer_Clear(r) ==
    /\ creq[r].pc = "aa_clear"
    /\ answers' = [i \in DOMAIN answers |->
                      IF answers[i].live /\ answers[i].question_id = creq[r].l_q
                      THEN [answers[i] EXCEPT !.is_accepted = FALSE]
                      ELSE answers[i]]
    /\ CContinue(r, [creq[r] EXCEPT !.pc = "aa_set"])
    /\ UNCHANGED <<questions, votes, tags, question_tags, comments>>

\* UPDATE answers SET is_accepted = 1 WHERE id = ?
AcceptAnswer_Set(r) ==
    /\ creq[r].pc = "aa_set"
    /\ answers' = [i \in DOMAIN answers |->
                      IF i = creq[r].id /\ answers[i].live
                      THEN [answers[i] EXCEPT !.is_accepted = TRUE]
                      ELSE answers[i]]
    /\ CContinue(r, [creq[r] EXCEPT !.pc = "aa_notify"])
    /\ UNCHANGED <<questions, votes, tags, question_tags, comments>>

AcceptAnswer_Notify(r) ==
    /\ creq[r].pc = "aa_notify"
    /\ CRespond(r, 200, "Answer marked as approved successfully")
    /\ UNCHANGED <<questions, answers, votes, tags, question_tags, comments>>

\* GET /api/questions?filter=no-answers: query += ' AND q.answer_count = 0'
NoAnswersFilter(q) == QuestionExists(q) /\ questions[q].answer_count = 0

CreateAnswerSteps(r) ==
    \/ CreateAnswer_SelectQuestion(r)
    \/ CreateAnswer_SelectMembership(r)
    \/ CreateAnswer_Insert(r)
    \/ CreateAnswer_Count(r)
    \/ CreateAnswer_Notify(r)

DeleteAnswerSteps(r) ==
    \/ DeleteAnswer_SelectAnswer(r)
    \/ DeleteAnswer_SelectMembership(r)
    \/ DeleteAnswer_Delete(r)
    \/ DeleteAnswer_Count(r)

AcceptAnswerSteps(r) ==
    \/ AcceptAnswer_SelectAnswer(r)
    \/ AcceptAnswer_SelectMembership(r)
    \/ AcceptAnswer_Clear(r)
    \/ AcceptAnswer_Set(r)
    \/ AcceptAnswer_Notify(r)

\* one question, no answers yet
AnswerInit ==
    /\ TeamFixture
    /\ questions = <<QuestionRow(1, 1)>>
    /\ answers = <<>>
    /\ votes = {}
    /\ tags = <<>>
    /\ question_tags = {}
    /\ comments = <<>>
    /\ creq = [r \in Slots |-> NoCReq]

\* answer requests handled concurrently, their statements interleaved
AnswerNext ==
    \E r \in Slots :
        \/ \E u \in Users, q \in QuestionIds : CreateAnswer(r, u, q)
        \/ \E u \in Users, a \in AnswerIds : DeleteAnswer(r, u, a)
        \/ \E u \in Users, a \in AnswerIds : AcceptAnswer(r, u, a)
        \/ CreateAnswerSteps(r)
        \/ DeleteAnswerSteps(r)
        \/ AcceptAnswerSteps(r)

AnswerSpec == AnswerInit /\ [][AnswerNext]_vars

\* ------------------------------------------------------------------------
\* Tag names: strings are sequences of one-character strings
\* ------------------------------------------------------------------------

\* String.prototype.toLowerCase
ToLower(str) ==
    [i \in DOMAIN str |-> IF str[i] = "A" THEN "a" ELSE IF str[i] = "B" THEN "b" ELSE str[i]]

RECURSIVE TrimStart(_)
TrimStart(str) ==
    IF str # <<>> /\ Head(str) = " " THEN TrimStart(Tail(str)) ELSE str

RECURSIVE TrimEnd(_)
TrimEnd(str) ==
    IF str # <<>> /\ str[Len(str)] = " " THEN TrimEnd(SubSeq(str, 1, Len(str) - 1)) ELSE str

\* String.prototype.trim
Trim(str) == TrimEnd(TrimStart(str))

\* tags.split(','): the pieces between commas, empty ones included
RECURSIVE SplitComma(_, _)
SplitComma(str, piece) ==
    IF str = <<>> THEN <<piece>>
    ELSE IF Head(str) = "," THEN <<piece>> \o SplitComma(Tail(str), <<>>)
    ELSE SplitComma(Tail(str), Append(piece, Head(str)))

\* .filter(t => t.length > 0)
RECURSIVE FilterNonEmpty(_)
FilterNonEmpty(list) ==
    IF list = <<>> THEN <<>>
    ELSE IF Head(list) = <<>> THEN FilterNonEmpty(Tail(list))
    ELSE <<Head(list)>> \o FilterNonEmpty(Tail(list))

\* .slice(0, 5)
MaxTagsPerQuestion == 5

\* tags.split(',').map(t => t.trim()).filter(t => t.length > 0).slice(0, 5)
ParseTags(str) ==
    LET pieces == SplitComma(str, <<>>)
        kept == FilterNonEmpty([i \in DOMAIN pieces |-> Trim(pieces[i])])
    IN IF Len(kept) > MaxTagsPerQuestion THEN SubSeq(kept, 1, MaxTagsPerQuestion) ELSE kept

\* tag arrays sent with create requests
CreateTagLists ==
    { <<>>,
      << <<"A">> >>,
      << <<"b">> >>,
      << <<"a">>, <<"b">> >>,
      << <<"a">>, <<"A">> >> }

\* comma-separated tag strings sent with update requests
UpdateTagStrings ==
    { <<>>,
      <<"a">>,
      <<"b", ",", "a">>,
      <<"a", ",", " ", "A">>,
      <<" ", "B", " ", ",", ",">> }

\* a row of the tags table
TagRow(t, name) == [team_id |-> t, name |-> name, question_count |-> 0]

TagsByName(t, name) ==
    {i \in 1..Len(tags) : tags[i].team_id = t /\ tags[i].name = name}

\* UNIQUE KEY unique_team_tag (team_id, name)
UniqueTeamTag(t, name) == TagsByName(t, name) = {}

\* SELECT tag_id FROM question_tags WHERE question_id = ?
TagIdsOf(q) == {i \in 1..Len(tags) : <<q, i>> \in question_tags}

RECURSIVE SortedSeq(_)
SortedSeq(S) == IF S = {} THEN <<>> ELSE <<MinOf(S)>> \o SortedSeq(S \ {MinOf(S)})

\* the count written without the decrement
DecrementedCount_Kept(n) == n

\* GREATEST(0, question_count - 1)
DecrementedCount(n) == IF n - 1 > 0 THEN n - 1 ELSE 0

\* ------------------------------------------------------------------------
\* POST /api/questions (create question)
\* ------------------------------------------------------------------------
CreateQuestion(r, u, t, tagList) ==
    /\ CFree(r)
    /\ Len(questions) < MaxQuestions
    /\ CContinue(r, [NewCReq("createQuestion", u, "cq_validate")
                       EXCEPT !.teamId = t, !.tagList = tagList])
    /\ UNCHANGED <<questions, answers, votes, tags, question_tags, comments>>

\* body('tags').isArray({ min: 1, max: 5 })
CreateQuestion_Validate(r) ==
    /\ creq[r].pc = "cq_validate"
    /\ IF Len(creq[r].tagList) >= 1 /\ Len(creq[r].tagList) <= MaxTagsPerQuestion
       THEN CContinue(r, [creq[r] EXCEPT !.pc = "cq_select_membership"])
       ELSE CRespond(r, 400, "Validation failed")
    /\ UNCHANGED <<questions, answers, votes, tags, question_tags, comments>>

CreateQuestion_SelectMembership(r) ==
    /\ creq[r].pc = "cq_select_membership"
    /\ IF IsMember(creq[r].teamId, creq[r].user)
       THEN CContinue(r, [creq[r] EXCEPT !.pc = "cq_insert"])
       ELSE CRespond(r, 403, "Not a member of this team")
    /\ UNCHANGED <<questions, answers, votes, tags, question_tags, comments>>

CreateQuestion_Insert(r) ==
    /\ creq[r].pc = "cq_insert"
    /\ questions' = Append(questions, QuestionRow(creq[r].teamId, creq[r].user))
    /\ CContinue(r, [creq[r] EXCEPT !.pc = "tag_select", !.l_q = Len(questions) + 1,
                                      !.l_team = creq[r].teamId, !.l_i = 1])
    /\ UNCHANGED <<answers, votes, tags, question_tags, comments>>

\* ------------------------------------------------------------------------
\* for (const tagName of tags) { ... }: the loop that attaches the tags, the
\* same statements in create question and in update question
\* ------------------------------------------------------------------------
\* the catch block's answer
AttachFailed(op) ==
    IF op = "createQuestion" THEN "Failed to create question"
                             ELSE "Failed to update question"

\* SELECT id FROM tags WHERE team_id = ? AND name = ?  (tagName.toLowerCase())
AttachTag_Select(r) ==
    /\ creq[r].pc = "tag_select"
    /\ LET c == creq[r]
           existingTags == TagsByName(c.l_team, ToLower(c.tagList[c.l_i]))
       IN IF existingTags = {}
          THEN CContinue(r, [c EXCEPT !.pc = "tag_insert"])
          ELSE CContinue(r, [c EXCEPT !.pc = "tag_link", !.l_tag = MinOf(existingTags)])
    /\ UNCHANGED <<questions, answers, votes, tags, question_tags, comments>>

\* INSERT INTO tags (team_id, name) VALUES (?, ?)
AttachTag_Insert(r) ==
    /\ creq[r].pc = "tag_insert"
    /\ LET c == creq[r] IN
       IF UniqueTeamTag(c.l_team, ToLower(c.tagList[c.l_i]))
       THEN /\ tags' = Append(tags, TagRow(c.l_team, ToLower(c.tagList[c.l_i])))
            /\ CContinue(r, [c EXCEPT !.pc = "tag_link", !.l_tag = Len(tags) + 1])
       ELSE /\ CRespond(r, 500, AttachFailed(c.op))
            /\ UNCHANGED tags
    /\ UNCHANGED <<questions, answers, votes, question_tags, comments>>

\* INSERT INTO question_tags (question_id, tag_id) VALUES (?, ?)
AttachTag_Link(r) ==
    /\ creq[r].pc = "tag_link"
    /\ IF <<creq[r].l_q, creq[r].l_tag>> \notin question_tags
       THEN /\ question_tags' = question_tags \cup {<<creq[r].l_q, creq[r].l_tag>>}
            /\ CContinue(r, [creq[r] EXCEPT !.pc = "tag_count"])
       ELSE /\ CRespond(r, 500, AttachFailed(creq[r].op))
            /\ UNCHANGED question_tags
    /\ UNCHANGED <<questions, answers, votes, tags, comments>>

\* UPDATE tags SET question_count = question_count + 1 WHERE id = ?
AttachTag_Count(r) ==
    /\ creq[r].pc = "tag_count"
    /\ tags' = [tags EXCEPT ![creq[r].l_tag].question_count = @ + 1]
    /\ IF creq[r].l_i < Len(creq[r].tagList)
       THEN CContinue(r, [creq[r] EXCEPT !.pc = "tag_select", !.l_i = @ + 1])
       ELSE IF creq[r].op = "createQuestion"
            THEN CRespond(r, 201, "Question created successfully")
            ELSE CRespond(r, 200, "Question updated successfully")
    /\ UNCHANGED <<questions, answers, votes, question_tags, comments>>

\* ------------------------------------------------------------------------
\* PUT /api/questions/:id (update question)
\* ------------------------------------------------------------------------
UpdateQuestion(r, u, q, hasText, hasTags, tagStr) ==
    /\ CFree(r)
    /\ CContinue(r, [NewCReq("updateQuestion", u, "uq_select_question")
                       EXCEPT !.id = q, !.hasText = hasText, !.hasTags = hasTags,
                              !.tagStr = IF hasTags THEN tagStr ELSE <<>>])
    /\ UNCHANGED <<questions, answers, votes, tags, question_tags, comments>>

UpdateQuestion_SelectQuestion(r) ==
    /\ creq[r].pc = "uq_select_question"
    /\ LET c == creq[r] IN
       IF ~QuestionExists(c.id) THEN CRespond(r, 404, "Question not found")
       ELSE IF questions[c.id].user_id # c.user
       THEN CRespond(r, 403, "Not authorized to edit this question")
       ELSE IF ~c.hasText /\ (~c.hasTags \/ c.tagStr = <<>>)
       THEN CRespond(r, 400, "No updates provided")
       ELSE IF c.hasText
       THEN CContinue(r, [c EXCEPT !.pc = "uq_update_text", !.l_q = c.id,
                                    !.l_team = questions[c.id].team_id])
       ELSE CContinue(r, [c EXCEPT !.pc = "uq_select_current", !.l_q = c.id,
                                    !.l_team = questions[c.id].team_id])
    /\ UNCHANGED <<questions, answers, votes, tags, question_tags, comments>>

\* UPDATE questions SET title = ?, ..., last_activity_at = CURRENT_TIMESTAMP
\* (title and body are not part of the modelled rows)
UpdateQuestion_UpdateText(r) ==
    /\ creq[r].pc = "uq_update_text"
    /\ TouchQuestion(creq[r].id)
    /\ IF creq[r].hasTags
       THEN CContinue(r, [creq[r] EXCEPT !.pc = "uq_select_current"])
       ELSE CRespond(r, 200, "Question updated successfully")
    /\ UNCHANGED <<answers, votes, tags, question_tags, comments>>

UpdateQuestion_SelectCurrent(r) ==
    /\ creq[r].pc = "uq_select_current"
    /\ LET c == creq[r]
           currentTags == SortedSeq(TagIdsOf(c.id))
       IN CContinue(r, [c EXCEPT !.tagList = ParseTags(c.tagStr),
                                 !.l_tags = currentTags, !.l_i = 1,
                                 !.pc = IF currentTags = <<>> THEN "uq_delete_links"
                                                              ELSE "uq_decrement"])
    /\ UNCHANGED <<questions, answers, votes, tags, question_tags, comments>>

\* UPDATE tags SET question_count = GREATEST(0, question_count - 1) WHERE id = ?
UpdateQuestion_Decrement(r) ==
    /\ creq[r].pc = "uq_decrement"
    /\ LET c == creq[r] IN
       /\ tags' = [tags EXCEPT ![c.l_tags[c.l_i]].question_count = DecrementedCount(@)]
       /\ IF c.l_i < Len(c.l_tags)
          THEN CContinue(r, [c EXCEPT !.l_i = @ + 1])
          ELSE CContinue(r, [c EXCEPT !.pc = "uq_delete_links"])
    /\ UNCHANGED <<questions, answers, votes, question_tags, comments>>

\* DELETE FROM question_tags WHERE question_id = ?
UpdateQuestion_DeleteLinks(r) ==
    /\ creq[r].pc = "uq_delete_links"
    /\ question_tags' = {l \in question_tags : l[1] # creq[r].id}
    /\ IF creq[r].tagList = <<>>
       THEN CRespond(r, 200, "Question updated successfully")
       ELSE CContinue(r, [creq[r] EXCEPT !.pc = "tag_select", !.l_i = 1])
    /\ UNCHANGED <<questions, answers, votes, tags, comments>>

CreateQuestionSteps(r) ==
    \/ CreateQuestion_Validate(r)
    \/ CreateQuestion_SelectMembership(r)
    \/ CreateQuestion_Insert(r)

AttachTagSteps(r) ==
    \/ AttachTag_Select(r)
    \/ AttachTag_Insert(r)
    \/ AttachTag_Link(r)
    \/ AttachTag_Count(r)

UpdateQuestionSteps(r) ==
    \/ UpdateQuestion_SelectQuestion(r)
    \/ UpdateQuestion_UpdateText(r)
    \/ UpdateQuestion_SelectCurrent(r)
    \/ UpdateQuestion_Decrement(r)
    \/ UpdateQuestion_DeleteLinks(r)

\* a team with members and no questions or tags yet
TagInit ==
    /\ TeamFixture
    /\ questions = <<>>
    /\ answers = <<>>
    /\ votes = {}
    /\ tags = <<>>
    /\ question_tags = {}
    /\ comments = <<>>
    /\ creq = [r \in Slots |-> NoCReq]

\* question create and update requests handled one at a time
TagSeqNext ==
    \/ \E u \in Users, t \in TeamIds, tagList \in CreateTagLists :
          CreateQuestion(SeqSlot, u, t, tagList)
    \/ \E u \in Users, q \in QuestionIds, hasText \in BOOLEAN, hasTags \in BOOLEAN,
          tagStr \in UpdateTagStrings :
          UpdateQuestion(SeqSlot, u, q, hasText, hasTags, tagStr)
    \/ CreateQuestionSteps(SeqSlot)
    \/ UpdateQuestionSteps(SeqSlot)
    \/ AttachTagSteps(SeqSlot)

TagSeqSpec == TagInit /\ [][TagSeqNext]_vars

\* ------------------------------------------------------------------------
\* comments router: POST / (create), DELETE /:id
\* questions router: DELETE /:id
\* ------------------------------------------------------------------------
\* a row of the comments table (a deleted row keeps its id)
CommentRow(pt, pid, u) ==
    [live |-> TRUE, parent_type |-> pt, parent_id |-> pid, user_id |-> u]

CommentExists(c) == c \in 1..Len(comments) /\ comments[c].live

\* the request carries parentType in vtype and parentId in id
CreateComment(r, u, pt, pid) ==
    /\ CFree(r)
    /\ Len(comments)
         + Cardinality({p \in Slots : creq[p].pc \in {"cc_select_parent",
                                                      "cc_select_membership",
                                                      "cc_insert"}}) < MaxComments
    /\ CContinue(r, [NewCReq("createComment", u, "cc_select_parent")
                       EXCEPT !.vtype = pt, !.id = pid])
    /\ UNCHANGED <<questions, answers, votes, tags, question_tags, comments>>

\* SELECT team_id, user_id FROM questions WHERE id = ?, or
\* SELECT a.user_id, a.question_id, q.team_id FROM answers a JOIN questions q ...
CreateComment_SelectParent(r) ==
    /\ creq[r].pc = "cc_select_parent"
    /\ LET c == creq[r] IN
       IF c.vtype = "question"
       THEN IF QuestionExists(c.id)
            THEN CContinue(r, [c EXCEPT !.pc = "cc_select_membership",
                                        !.l_team = questions[c.id].team_id,
                                        !.l_owner = questions[c.id].user_id,
                                        !.l_q = c.id])
            ELSE CRespond(r, 404, "Question not found")
       ELSE IF AnswerExists(c.id) /\ QuestionExists(answers[c.id].question_id)
            THEN CContinue(r, [c EXCEPT !.pc = "cc_select_membership",
                                        !.l_team = questions[answers[c.id].question_id].team_id,
                                        !.l_owner = answers[c.id].user_id,
                                        !.l_q = answers[c.id].question_id])
            ELSE CRespond(r, 404, "Answer not found")
    /\ UNCHANGED <<questions, answers, votes, tags, question_tags, comments>>

CreateComment_SelectMembership(r) ==
    /\ creq[r].pc = "cc_select_membership"
    /\ IF IsMember(creq[r].l_team, creq[r].user)
       THEN CContinue(r, [creq[r] EXCEPT !.pc = "cc_insert"])
       ELSE CRespond(r, 403, "Not a member of this team")
    /\ UNCHANGED <<questions, answers, votes, tags, question_tags, comments>>

\* INSERT INTO comments (parent_type, parent_id, user_id, body)
CreateComment_Insert(r) ==
    /\ creq[r].pc = "cc_insert"
    /\ comments' = Append(comments, CommentRow(creq[r].vtype, creq[r].id, creq[r].user))
    /\ CContinue(r, [creq[r] EXCEPT !.pc = "cc_activity", !.l_id = Len(comments) + 1])
    /\ UNCHANGED <<questions, answers, votes, tags, question_tags>>

\* UPDATE questions SET last_activity_at = CURRENT_TIMESTAMP WHERE id = ?
CreateComment_Activity(r) ==
    /\ creq[r].pc = "cc_activity"
    /\ TouchQuestion(creq[r].l_q)
    /\ CContinue(r, [creq[r] EXCEPT !.pc = "cc_notify"])
    /\ UNCHANGED <<answers, votes, tags, question_tags, comments>>

\* await createNotification(...): its own failures are swallowed
CreateComment_Notify(r) ==
    /\ creq[r].pc = "cc_notify"
    /\ CRespond(r, 201, "Comment created successfully")
    /\ UNCHANGED <<questions, answers, votes, tags, question_tags, comments>>

DeleteComment(r, u, c) ==
    /\ CFree(r)
    /\ CContinue(r, [NewCReq("deleteComment", u, "dc_select") EXCEPT !.id = c])
    /\ UNCHANGED <<questions, answers, votes, tags, question_tags, comments>>

\* SELECT user_id FROM comments WHERE id = ?
DeleteComment_Select(r) ==
    /\ creq[r].pc = "dc_select"
    /\ IF ~CommentExists(creq[r].id)
       THEN CRespond(r, 404, "Comment not found")
       ELSE IF comments[creq[r].id].user_id # creq[r].user
            THEN CRespond(r, 403, "Not authorized to delete this comment")
            ELSE CContinue(r, [creq[r] EXCEPT !.pc = "dc_delete"])
    /\ UNCHANGED <<questions, answers, votes, tags, question_tags, comments>>

\* DELETE FROM comments WHERE id = ?
DeleteComment_Delete(r) ==
    /\ creq[r].pc = "dc_delete"
    /\ comments' = [i \in DOMAIN comments |->
                       IF i = creq[r].id THEN [comments[i] EXCEPT !.live = FALSE]
                       ELSE comments[i]]
    /\ CRespond(r, 200, "Comment deleted successfully")
    /\ UNCHANGED <<questions, answers, votes, tags, question_tags>>

DeleteQuestion(r, u, q) ==
    /\ CFree(r)
    /\ CContinue(r, [NewCReq("deleteQuestion", u, "dq_select_question") EXCEPT !.id = q])
    /\ UNCHANGED <<questions, answers, votes, tags, question_tags, comments>>

\* SELECT q.user_id, q.team_id FROM questions q WHERE q.id = ?
DeleteQuestion_SelectQuestion(r) ==
    /\ creq[r].pc = "dq_select_question"
    /\ IF QuestionExists(creq[r].id)
       THEN CContinue(r, [creq[r] EXCEPT !.pc = "dq_select_membership",
                                          !.l_owner = questions[creq[r].id].user_id,
                                          !.l_team = questions[creq[r].id].team_id])
       ELSE CRespond(r, 404, "Question not found")
    /\ UNCHANGED <<questions, answers, votes, tags, question_tags, comments>>

DeleteQuestion_SelectMembership(r) ==
    /\ creq[r].pc = "dq_select_membership"
    /\ LET c == creq[r] IN
       IF c.l_owner # c.user
          /\ (~IsMember(c.l_team, c.user) \/ Membership(c.l_team, c.user)[1] # "admin")
       THEN CRespond(r, 403, "Not authorized to delete this question")
       ELSE CContinue(r, [c EXCEPT !.pc = "dq_delete"])
    /\ UNCHANGED <<questions, answers, votes, tags, question_tags, comments>>

\* DELETE FROM questions WHERE id = ?  The foreign keys ON DELETE CASCADE of
\* answers.question_id and question_tags.question_id remove those rows with
\* it; votes and comments name their target by (type, id) without a foreign
\* key and are left as they are.
DeleteQuestion_Delete(r) ==
    /\ creq[r].pc = "dq_delete"
    /\ questions' = [i \in DOMAIN questions |->
                        IF i = creq[r].id THEN [questions[i] EXCEPT !.live = FALSE]
                        ELSE questions[i]]
    /\ answers' = [i \in DOMAIN answers |->
                      IF answers[i].question_id = creq[r].id
                      THEN [answers[i] EXCEPT !.live = FALSE, !.is_accepted = FALSE]
                      ELSE answers[i]]
    /\ question_tags' = {l \in question_tags : l[1] # creq[r].id}
    /\ CRespond(r, 200, "Question deleted successfully")
    /\ UNCHANGED <<votes, tags, comments>>

CreateCommentSteps(r) ==
    \/ CreateComment_SelectParent(r)
    \/ CreateComment_SelectMembership(r)
    \/ CreateComment_Insert(r)
    \/ CreateComment_Activity(r)
    \/ CreateComment_Notify(r)

DeleteCommentSteps(r) ==
    \/ DeleteComment_Select(r)
    \/ DeleteComment_Delete(r)

DeleteQuestionSteps(r) ==
    \/ DeleteQuestion_SelectQuestion(r)
    \/ DeleteQuestion_SelectMembership(r)
    \/ DeleteQuestion_Delete(r)

\* team 1 (admin 1, member 2) with question 1, asked by member 2 and carrying
\* tag 1, and answer 1 to it, given by member 2; user 3 is in no team
DeleteInit ==
    /\ TeamFixture
    /\ questions = <<[QuestionRow(1, 2) EXCEPT !.answer_count = 1]>>
    /\ answers = <<AnswerRow(1, 2)>>
    /\ votes = {}
    /\ tags = <<[TagRow(1, <<"a">>) EXCEPT !.question_count = 1]>>
    /\ question_tags = {<<1, 1>>}
    /\ comments = <<>>
    /\ creq = [r \in Slots |-> NoCReq]

\* votes, comments and deletions handled one at a time; ids 1 name existing
\* rows, ids 2 do not
DeleteSeqNext ==
    \/ \E vt \in {"question", "answer"}, d \in VoteTypes : Vote(SeqSlot, 2, vt, 1, d)
    \/ \E u \in {2, 3}, pt \in {"question", "answer"}, pid \in {1, 2} :
          CreateComment(SeqSlot, u, pt, pid)
    \/ \E u \in Users, c \in 1..MaxComments : DeleteComment(SeqSlot, u, c)
    \/ \E u \in Users, a \in {1, 2} : DeleteAnswer(SeqSlot, u, a)
    \/ \E u \in Users, q \in {1, 2} : DeleteQuestion(SeqSlot, u, q)
    \/ VoteSteps(SeqSlot)
    \/ CreateCommentSteps(SeqSlot)
    \/ DeleteCommentSteps(SeqSlot)
    \/ DeleteAnswerSteps(SeqSlot)
    \/ DeleteQuestionSteps(SeqSlot)

DeleteSeqSpec == DeleteInit /\ [][DeleteSeqNext]_vars

\* ------------------------------------------------------------------------
\* Properties of the team/admin handlers
\* ------------------------------------------------------------------------
\* slot r sends its response in this step
Answers(r) == InFlight(r) /\ treq'[r].pc = "done"

HasAdminIfNonEmpty(t) == MembersOf(t) # {} => AdminsOf(t) # {}

\* C1: in every reachable state, under any interleaving of the statements of
\* concurrently handled requests, every team that has a membership row has a
\* membership row with role admin.
C1_LastAdminInvariant == \A t \in TeamIds : HasAdminIfNonEmpty(t)

\* C2: a changeRole or removeMember request never succeeds when its effect
\* leaves a non-empty team with zero admins (the statement that answers with
\* success does not take a team that has an admin to one that has members
\* and no admin), and one that is rejected leaves every membership row and
\* role as it was.
C2_NoAdminlessSuccess ==
    [][\A r \in Slots :
          (Answers(r) /\ treq[r].op \in {"changeRole", "removeMember"}) =>
              IF treq'[r].status = 200
              THEN \A t \in TeamIds :
                      (t = treq[r].teamId /\ AdminsOf(t) # {}) => HasAdminIfNonEmpty(t)'
              ELSE team_members' = team_members]_vars

\* C3: over any interleaving of acceptInvite requests carrying one token, at
\* most one request is answered as a successful redemption, and no user has
\* more than one membership row in a team.
C3_SingleRedemption ==
    /\ \A tok \in Tokens :
          Cardinality({r \in Slots : /\ treq[r].pc = "done"
                                     /\ treq[r].op = "acceptInvite"
                                     /\ treq[r].token = tok
                                     /\ treq[r].status = 200}) <= 1
    /\ \A t \in TeamIds, u \in Users : Len(Membership(t, u)) <= 1

\* C4: a leaveTeam request of a member, handled on its own, is rejected with
\* membership unchanged when the caller is the only admin and the team has
\* another member; in every other case (the caller is the only member, is
\* not an admin, or another admin exists) it removes exactly the caller's
\* membership row.
C4_LeaveTeamDecision ==
    [][\A r \in Slots :
          (/\ Answers(r)
           /\ treq[r].op = "leaveTeam"
           /\ treq[r].l_team # 0
           /\ IsMember(treq[r].l_team, treq[r].user)) =>
              LET t == treq[r].l_team
                  u == treq[r].user
              IN IF AdminsOf(t) = {u} /\ MembersOf(t) # {u}
                 THEN /\ treq'[r].status = 400
                      /\ treq'[r].msg = "You are the only admin"
                      /\ team_members' = team_members
                 ELSE /\ treq'[r].status = 200
                      /\ team_members'[<<t, u>>] = <<>>
                      /\ \A k \in DOMAIN team_members :
                            k # <<t, u>> => team_members'[k] = team_members[k]]_vars

\* C4 witness: an admin has left a team in which another admin remains
C4_Witness ==
    \E t \in TeamIds :
        /\ treq[SeqSlot].pc = "done"
        /\ treq[SeqSlot].op = "leaveTeam"
        /\ treq[SeqSlot].status = 200
        /\ MembersOf(t) # {}
        /\ AdminsOf(t) = MembersOf(t)

\* C9: a createTeam request answered with success leaves the creator as the
\* only member of the new team, with role admin, and a createTeam request
\* that is not answered with success leaves no team row behind: the team row
\* never exists without the creator's admin membership row.
C9_CreateTeamAtomic ==
    [][\A r \in Slots :
          (Answers(r) /\ treq[r].op = "createTeam") =>
              IF treq'[r].status = 201
              THEN \A t \in TeamIds, u \in Users :
                      (t = treq[r].l_team /\ u = treq[r].user) =>
                          /\ MembersOf(t)' = {u}
                          /\ Membership(t, u)' = <<"admin">>
              ELSE treq[r].l_team = 0]_vars

\* C10: a createTeam request whose slug is taken by an existing team when it
\* is answered (this request having inserted no team) is answered Conflict
\* and creates neither a team nor a membership row, also when another
\* createTeam with the same slug is handled concurrently; no two teams share
\* a slug.
C10_SlugConflict ==
    [][/\ \A r \in Slots :
            (/\ Answers(r)
             /\ treq[r].op = "createTeam"
             /\ treq[r].l_team = 0
             /\ TeamsBySlug(treq[r].slug) # {}) =>
                /\ treq'[r].status \in {400, 409}
                /\ treq'[r].msg = "Team URL already taken"
                /\ teams' = teams
                /\ team_members' = team_members
       /\ \A i, j \in 1..Len(teams') : teams'[i] = teams'[j] => i = j]_vars
\* ------------------------------------------------------------------------
\* Properties of the vote handler
\* ------------------------------------------------------------------------
\* C5: a vote request handled on its own follows the transition table: from
\* no-vote it inserts the vote d and moves the score by +1 (up) or -1 (down);
\* when the stored vote is d it deletes the vote and reverses that change;
\* when the stored vote is the opposite one it sets it to d and moves the
\* score by +2 (to up) or -2 (to down).
C5_VoteTransitionTable ==
    \A r \in Slots :
        (creq[r].pc = "done" /\ creq[r].op = "vote" /\ creq[r].status \in {200, 201}) =>
            LET c == creq[r]
                unit == IF c.dir = "up" THEN 1 ELSE -1
                now == StoredVote(c.vtype, c.id, c.user)
                moved == ScoreOf(c.vtype, c.id) - c.g_score
                exists == IF c.vtype = "question" THEN QuestionExists(c.id)
                                                   ELSE AnswerExists(c.id)
            IN /\ Cardinality(VoteRows(c.vtype, c.id, c.user)) <= 1
               /\ IF c.g_vote = "none"
                  THEN now = c.dir /\ (exists => moved = unit)
                  ELSE IF c.g_vote = c.dir
                       THEN now = "none" /\ (exists => moved = -unit)
                       ELSE now = c.dir /\ (exists => moved = 2 * unit)

\* C5 witness: the second of two same-direction requests has been answered:
\* the voter is back at no-vote and the score is back where it started
C5_Witness ==
    /\ creq[SeqSlot].pc = "done"
    /\ creq[SeqSlot].op = "vote"
    /\ creq[SeqSlot].g_vote = creq[SeqSlot].dir
    /\ creq[SeqSlot].vtype = "question"
    /\ QuestionExists(creq[SeqSlot].id)
    /\ votes = {}
    /\ questions[creq[SeqSlot].id].score = 0
\* ------------------------------------------------------------------------
\* Properties of the answers router
\* ------------------------------------------------------------------------
\* C6: whenever no answer request is in flight, each question's answer_count
\* equals the number of answer rows of the question and is not negative, so
\* the no-answers filter lists a question exactly when it has no answers.
C6_AnswerCountMatches ==
    (\A r \in Slots : CFree(r)) =>
        \A q \in QuestionIds :
            QuestionExists(q) =>
                /\ questions[q].answer_count = Cardinality(AnswersOf(q))
                /\ questions[q].answer_count >= 0
                /\ NoAnswersFilter(q) <=> (AnswersOf(q) = {})

\* C7: in every reachable state each question has at most one answer with
\* is_accepted = true.
C7_AtMostOneAccepted ==
    \A q \in QuestionIds : Cardinality(AcceptedOf(q)) <= 1
\* ------------------------------------------------------------------------
\* Properties of the question tag handling
\* ------------------------------------------------------------------------

\* C8: whenever no create or update request is in flight, each tag's
\* question_count equals the number of question_tags rows that link a question
\* to the tag, whatever tag sets the questions were created with and replaced
\* by (overlapping sets and repeated names included).
C8_TagCountMatchesLinks ==
    (\A r \in Slots : CFree(r)) =>
        \A tag \in 1..Len(tags) : tags[tag].question_count = Cardinality({l \in question_tags : l[2] = tag})

\* C8 witness: a tag replacement has been answered, leaving one tag linked to
\* two questions and another tag no longer linked to any
C8_Witness ==
    /\ creq[SeqSlot].pc = "done"
    /\ creq[SeqSlot].op = "updateQuestion"
    /\ creq[SeqSlot].status = 200
    /\ \E tag \in 1..Len(tags) : tags[tag].question_count = 2
    /\ \E tag \in 1..Len(tags) : tags[tag].question_count = 0
\* ------------------------------------------------------------------------
\* Properties of the invite handlers
\* ------------------------------------------------------------------------
\* C11: createInvite inserts no invite when a non-expired pending invite for
\* the email and team exists, so a team never has two non-expired pending
\* invites for the same email, however createInvite requests interleave.
C11_NoDuplicatePendingInvite ==
    \A t \in TeamIds, u \in Users : Cardinality(PendingInvites(t, EmailOf(u))) <= 1

\* C12: acceptInvite answers NotFound for an unknown token, else Expired when
\* the expiry time has passed (whatever the stored status), else InvalidState
\* when the status is not pending, else Forbidden when the caller's address
\* differs from the invite's other than in case; only a request that passes
\* all four goes on, and a request answered with one of these failures
\* changes no membership row and no invite.
C12_AcceptInviteChecks ==
    [][\A r \in Slots, tok \in Tokens, u \in Users :
          (treq[r].op = "acceptInvite" /\ treq[r].token = tok /\ treq[r].user = u
             /\ treq'[r] # treq[r]) =>
            LET known == tok \in 1..Len(team_invites)
                failed == treq'[r].pc = "done" /\ treq'[r].status \in {400, 403, 404}
            IN /\ treq[r].pc = "ai_select_invite" =>
                    IF ~known THEN failed /\ treq'[r].status = 404
                    ELSE IF team_invites[tok].elapsed
                         THEN failed /\ treq'[r].msg = "This invite has expired"
                    ELSE IF team_invites[tok].status # "pending"
                         THEN failed /\ treq'[r].status = 400
                              /\ treq'[r].msg # "This invite has expired"
                    ELSE treq'[r].pc = "ai_select_user"
               /\ treq[r].pc = "ai_select_user" =>
                    IF EmailOf(u)[2] # team_invites[tok].email[2]
                    THEN failed /\ treq'[r].status = 403
                    ELSE treq'[r].pc = "ai_select_existing"
               /\ failed => UNCHANGED <<team_members, team_invites>>
               /\ failed => treq[r].pc \in {"ai_select_invite", "ai_select_user"}
    ]_vars

\* C12 witness: an invite that was cancelled and whose expiry time has passed
\* has been answered Expired, not InvalidState
C12_Witness ==
    /\ treq[SeqSlot].pc = "done"
    /\ treq[SeqSlot].op = "acceptInvite"
    /\ treq[SeqSlot].msg = "This invite has expired"
    /\ treq[SeqSlot].token \in 1..Len(team_invites)
    /\ team_invites[treq[SeqSlot].token].status = "cancelled"
    /\ team_invites[treq[SeqSlot].token].elapsed

\* C13: when the accepting user is already a member of the invite's team,
\* acceptInvite on a valid pending invite marks the invite accepted and
\* answers success, adding no membership row and leaving the role as it was.
C13_AlreadyMemberAccept ==
    [][\A r \in Slots, tok \in Tokens, u \in Users :
          (/\ treq[r].op = "acceptInvite" /\ treq[r].token = tok /\ treq[r].user = u
           /\ treq'[r] # treq[r]
           /\ treq[r].pc \in {"ai_select_existing", "ai_update_already"}
           /\ Membership(treq[r].l_team, u) # <<>>) =>
            /\ team_members' = team_members
            /\ treq[r].pc = "ai_select_existing" => treq'[r].pc = "ai_update_already"
            /\ treq[r].pc = "ai_update_already" =>
                 /\ treq'[r].pc = "done"
                 /\ treq'[r].status = 200
                 /\ team_invites'[tok].status = "accepted"
    ]_vars

\* C13 witness: user 3, by now an admin of team 1, has redeemed the invite and
\* was answered success; the invite is accepted and user 3 is still admin
C13_Witness ==
    /\ treq[SeqSlot].pc = "done"
    /\ treq[SeqSlot].op = "acceptInvite"
    /\ treq[SeqSlot].msg = "You are already a member of this team"
    /\ team_invites[treq[SeqSlot].token].status = "accepted"
    /\ Membership(1, 3) = <<"admin">>

\* C14: cancelInvite requested by an admin of the team on an invite of that
\* team sets the invite's status to cancelled whatever the status was and
\* changes nothing else: an invite that is cancelled already stays as it is,
\* and no membership row changes.
C14_CancelInvite ==
    [][\A r \in Slots, i \in Tokens :
          (treq[r].op = "cancelInvite" /\ treq[r].token = i /\ treq'[r] # treq[r]) =>
            LET ofTeam == i \in 1..Len(team_invites)
                          /\ team_invites[i].team_id = treq[r].teamId
            IN /\ team_members' = team_members
               /\ (treq[r].pc = "cn_require_admin"
                     /\ Membership(treq[r].teamId, treq[r].user) = <<"admin">>)
                    => treq'[r].pc = "cn_select_invite"
               /\ (treq[r].pc = "cn_select_invite" /\ ofTeam) => treq'[r].pc = "cn_update"
               /\ treq[r].pc = "cn_update" =>
                    /\ treq'[r].pc = "done" /\ treq'[r].status = 200
                    /\ team_invites' = [team_invites EXCEPT ![i].status = "cancelled"]
                    /\ team_invites[i].status = "cancelled" => team_invites' = team_invites
               /\ treq[r].pc # "cn_update" => team_invites' = team_invites
    ]_vars

\* C14 witness: the admin's cancel request on an invite whose expiry time had
\* passed has been answered success and the invite is cancelled
C14_Witness ==
    /\ treq[SeqSlot].pc = "done"
    /\ treq[SeqSlot].op = "cancelInvite"
    /\ treq[SeqSlot].status = 200
    /\ team_invites[treq[SeqSlot].token].status = "cancelled"
    /\ team_invites[treq[SeqSlot].token].elapsed

\* ------------------------------------------------------------------------
\* Properties of the admin router
\* ------------------------------------------------------------------------
\* C15: a changeRole or removeMember request whose target is the requesting
\* admin is answered InvalidOperation (400) as soon as it has passed
\* requireTeamAdmin, and no step of such a request changes a membership row.
C15_SelfTargetRejected ==
    [][\A r \in Slots :
          (/\ InFlight(r)
           /\ treq[r].op \in {"changeRole", "removeMember"}
           /\ treq[r].target = treq[r].user
           /\ treq'[r] # treq[r]) =>
            /\ team_members' = team_members
            /\ treq'[r].pc = "done"
            /\ Membership(treq[r].teamId, treq[r].user) = <<"admin">> =>
                 /\ treq'[r].status = 400
                 /\ treq'[r].msg \in {"You cannot change your own role",
                                      "You cannot remove yourself from the team"}
    ]_vars

\* C15 witness: an admin's request to change their own role has been rejected
C15_Witness ==
    /\ treq[SeqSlot].pc = "done"
    /\ treq[SeqSlot].op = "changeRole"
    /\ treq[SeqSlot].status = 400
    /\ treq[SeqSlot].msg = "You cannot change your own role"

\* C16: changeRole, removeMember, createInvite and cancelInvite asked by a
\* user who does not hold role admin in the addressed team (a plain member, a
\* non-member, an admin of another team) are answered Forbidden (403) by
\* their first step, and that step changes no membership or invite row.
C16_NonAdminForbidden ==
    [][\A r \in Slots :
          (/\ treq[r].pc \in {"cr_require_admin", "rm_require_admin",
                              "ci_require_admin", "cn_require_admin"}
           /\ Membership(treq[r].teamId, treq[r].user) # <<"admin">>
           /\ treq'[r] # treq[r]) =>
            /\ treq'[r].pc = "done"
            /\ treq'[r].status = 403
            /\ treq'[r].msg = "Admin access required."
            /\ team_members' = team_members
            /\ team_invites' = team_invites
    ]_vars

\* C16 witness: with an invite row on file, a cancelInvite has been refused
\* for lack of the admin role
C16_Witness ==
    /\ treq[SeqSlot].pc = "done"
    /\ treq[SeqSlot].op = "cancelInvite"
    /\ treq[SeqSlot].status = 403
    /\ treq[SeqSlot].msg = "Admin access required."
    /\ Len(team_invites) > 0

\* ------------------------------------------------------------------------
\* Properties of content access
\* ------------------------------------------------------------------------
\* C17: a data operation on a team's content takes effect only for a member
\* of the owning team; for votes: every vote row on a question, or on an
\* answer to a question, was cast by a member of the question's team
\* (memberships do not change while votes are cast here).
C17_VotesByMembersOnly ==
    \A v \in votes :
        LET q == IF v.votable_type = "question" THEN v.votable_id
                 ELSE IF AnswerExists(v.votable_id)
                      THEN answers[v.votable_id].question_id ELSE 0
        IN  QuestionExists(q) => IsMember(questions[q].team_id, v.user_id)

\* C18: a membership row is added to an existing team only by one of its
\* admins: an addMember request that adds a row was made by a user holding
\* role admin in that team.
C18_OnlyAdminsAddMembers ==
    [][\A r \in Slots :
          (/\ InFlight(r)
           /\ treq[r].op = "addMember"
           /\ treq'[r] # treq[r]
           /\ team_members' # team_members) =>
            Membership(treq[r].l_team, treq[r].user) = <<"admin">>
    ]_vars

\* C19: a question, an answer or a comment is deleted only by its author or
\* by an admin of the owning team, and the admin's deletion succeeds for each
\* of the three kinds: a delete request is refused (403) only when the caller
\* is neither the author of the row nor an admin of the team that owns it.
C19_DeleteRefusedOnlyToOthers ==
    \A r \in Slots :
        LET c == creq[r] IN
        (/\ c.pc = "done"
         /\ c.status = 403
         /\ c.op \in {"deleteQuestion", "deleteAnswer", "deleteComment"}) =>
            LET author == IF c.op = "deleteQuestion" THEN questions[c.id].user_id
                          ELSE IF c.op = "deleteAnswer" THEN answers[c.id].user_id
                          ELSE comments[c.id].user_id
                q == IF c.op = "deleteQuestion" THEN c.id
                     ELSE IF c.op = "deleteAnswer" THEN answers[c.id].question_id
                     ELSE IF comments[c.id].parent_type = "question"
                          THEN comments[c.id].parent_id
                          ELSE answers[comments[c.id].parent_id].question_id
            IN  /\ c.user # author
                /\ Membership(questions[q].team_id, c.user) # <<"admin">>

\* C20: deleting a question removes its answers, its comments, its votes and
\* its tag links: after the DELETE statement no live answer, comment, vote
\* row or question_tags row refers to the question.
C20_DeleteQuestionCascades ==
    [][\A r \in Slots :
          (creq[r].pc = "dq_delete" /\ creq'[r] # creq[r]) =>
            /\ \A a \in DOMAIN answers' :
                  answers'[a].question_id = creq[r].id => ~answers'[a].live
            /\ \A l \in question_tags' : l[1] # creq[r].id
            /\ \A v \in votes' :
                  ~(v.votable_type = "question" /\ v.votable_id = creq[r].id)
            /\ \A k \in DOMAIN comments' :
                  comments'[k].live =>
                     ~(comments'[k].parent_type = "question"
                       /\ comments'[k].parent_id = creq[r].id)
    ]_vars

\* ------------------------------------------------------------------------
\* Properties of the vote handler under failures, time and concurrency
\* ------------------------------------------------------------------------
\* C21: when a store statement of a multi-step operation fails, none of the
\* operation's earlier statements remains applied; for a vote: after a vote
\* request answered 500 the voter's stored vote and the target's score are
\* what they were when the request arrived.
C21_FailedVoteLeavesNoTrace ==
    \A r \in Slots :
        (creq[r].pc = "done" /\ creq[r].op = "vote" /\ creq[r].status = 500) =>
            /\ StoredVote(creq[r].vtype, creq[r].id, creq[r].user) = creq[r].g_vote
            /\ ScoreOf(creq[r].vtype, creq[r].id) = creq[r].g_score

\* C22: every vote mutation (new vote, toggle-off, direction switch) on a
\* question or on an answer sets the last-activity timestamp of the question
\* concerned to a time not earlier than the vote request: when a vote request
\* answers success, the last_activity_at of the question it concerns is
\* current.
C22_VoteBumpsActivity ==
    [][\A r \in Slots :
          (/\ creq[r].op = "vote"
           /\ ~CFree(r)
           /\ creq'[r].pc = "done"
           /\ creq'[r].status \in {200, 201}) =>
            LET q == IF creq[r].vtype = "question" THEN creq[r].id
                     ELSE IF AnswerExists(creq[r].id)
                          THEN answers[creq[r].id].question_id ELSE 0
            IN  QuestionExists(q) => questions'[q].last_activity_at = "current"
    ]_vars

\* C23: in every reachable state, under any interleaving of concurrently
\* handled vote requests, there is at most one vote row per (voter, target).
C23_OneVotePerVoterAndTarget ==
    \A v, w \in votes :
        (/\ v.votable_type = w.votable_type
         /\ v.votable_id = w.votable_id
         /\ v.user_id = w.user_id) => v = w

\* C23 witness: of two simultaneous first votes by the same voter on the same
\* target, in opposite directions, one has been stored and the other has been
\* turned down by the unique key
C23_Witness ==
    \E r \in Slots :
        /\ creq[r].pc = "done"
        /\ creq[r].op = "vote"
        /\ creq[r].status = 500
        /\ creq[r].g_vote = "none"
        /\ StoredVote(creq[r].vtype, creq[r].id, creq[r].user) \notin {"none", creq[r].dir}

\* C25: whenever no vote request is in progress, the score of every existing
\* question and answer equals the number of up votes minus the number of down
\* votes stored for it, for every interleaving of vote requests.
C25_ScoreMatchesVotes ==
    (\A r \in Slots : CFree(r)) =>
        \A vt \in {"question", "answer"}, vid \in {1} :
            LET ups == {v \in votes : v.votable_type = vt /\ v.votable_id = vid
                                        /\ v.vote_type = "up"}
                downs == {v \in votes : v.votable_type = vt /\ v.votable_id = vid
                                          /\ v.vote_type = "down"}
            IN  ScoreOf(vt, vid) = Cardinality(ups) - Cardinality(downs)

\* ------------------------------------------------------------------------
\* Further properties of the team/admin handlers
\* ------------------------------------------------------------------------
\* C24: once a team has no members (its last member has left), no later
\* request gives it a member again: a step taken while an existing team has
\* no membership row, and no createTeam request is still about to insert the
\* creator's row, leaves the team without members.
C24_EmptyTeamStaysEmpty ==
    [][\A t \in TeamIds :
          (/\ t <= Len(teams)
           /\ MembersOf(t) = {}
           /\ \A r \in Slots : ~(InFlight(r) /\ treq[r].op = "createTeam")) =>
            \A u \in Users : team_members'[<<t, u>>] = <<>>
    ]_vars

\* C26: a changeRole or removeMember mutation is applied only if the
\* requestor still holds role admin in the team at the moment its UPDATE or
\* DELETE executes: a step of such a request that changes a membership row is
\* taken while the requestor's row in the addressed team has role admin.
C26_AdminAtWrite ==
    [][\A r \in Slots :
          (/\ InFlight(r)
           /\ treq[r].op \in {"changeRole", "removeMember"}
           /\ treq'[r] # treq[r]
           /\ team_members' # team_members) =>
            Membership(treq[r].teamId, treq[r].user) = <<"admin">>
    ]_vars

\* C27: no user becomes a member through an invite that was already
\* cancelled when the membership was written: the step of an acceptInvite
\* request that inserts the membership row is taken while the invite's status
\* is not cancelled.
C27_NoJoinThroughCancelledInvite ==
    [][\A r \in Slots :
          (/\ InFlight(r)
           /\ treq[r].op = "acceptInvite"
           /\ treq'[r] # treq[r]
           /\ team_members' # team_members) =>
            team_invites[treq[r].token].status # "cancelled"
    ]_vars

\* ------------------------------------------------------------------------
\* Tag counts under question deletion
\* ------------------------------------------------------------------------
\* C28: in every state reached by question creation, tag-set replacement and
\* question deletion, each tag's question_count equals the number of existing
\* questions linked to that tag.
C28_TagCountMatchesQuestions ==
    \A i \in 1..Len(tags) :
        tags[i].question_count
          = Cardinality({q \in 1..Len(questions) :
                            questions[q].live /\ <<q, i>> \in question_tags})

\* ------------------------------------------------------------------------
\* The admin router, requests handled one at a time
\* ------------------------------------------------------------------------
\* C29: when requests are handled one at a time, the 'Team must have at least
\* one admin' rejection of changeRole and of removeMember is never returned.
C29_AdminCountRejectionUnreachable ==
    \A r \in Slots :
        (treq[r].pc = "done" /\ treq[r].op \in {"changeRole", "removeMember"}) =>
            treq[r].msg \notin {"Cannot demote. Team must have at least one admin.",
                                "Cannot remove. Team must have at least one admin."}

\* C29 witness: a removeMember request aimed at an admin has gone through the
\* other-admin count and is about to delete the row
C29_Witness ==
    /\ treq[SeqSlot].op = "removeMember"
    /\ treq[SeqSlot].pc = "rm_delete"
    /\ Membership(treq[SeqSlot].teamId, treq[SeqSlot].target) = <<"admin">>

\* C30: changeRole answers success only if, after it, the target user is a
\* member of the addressed team holding the requested role.
C30_ChangeRoleSuccessMeansRoleHeld ==
    [][\A r \in Slots :
          (/\ InFlight(r)
           /\ treq[r].op = "changeRole"
           /\ treq'[r].pc = "done"
           /\ treq'[r].status = 200) =>
            team_members'[<<treq[r].teamId, treq[r].target>>] = <<treq[r].role>>
    ]_vars
====
